---- MODULE Spec2Model ----
(***************************************************************************)
(* Model of the project-wide source model of src/project_model.py          *)
(* (CodeEntity, CodeFile, Project) and of the helpers of src/utils.py it   *)
(* calls.                                                                  *)
(*                                                                         *)
(* Text is modelled as sequences of one-character strings, so that         *)
(* basename, split, endswith and the substring test `in` are computed.     *)
(* A source line is modelled by the lexical facts the extractors' regular  *)
(* expressions read from it (its indentation, the construct it opens, the  *)
(* name it declares, its braces).                                          *)
(***************************************************************************)
EXTENDS Integers, Sequences, FiniteSets, TLC

VARIABLES
    disk,              \* the directory tree: path -> what is on disk there
    files,             \* Project.files, an insertion-ordered dict: a sequence of CodeFile records
    dependency_graph,  \* Project.dependency_graph: [nodes, edges]
    file_count,        \* Project.file_count
    entity_count,      \* Project.entity_count
    project_type,      \* Project.project_type
    issues,            \* Project.issues
    snapshot,          \* the project snapshot last written by save_to_file
    exc,               \* the exception that left the last public call ("None" when it returned)
    ret,               \* what the last public call returned
    hist,              \* history: the last operation and what the claims compare it with
    edits,             \* how many changes were made (see MaxEdits)
    cf,                \* a CodeFile handled on its own (outside a project)
    pc,                \* where the call on cf stands, and the file it has seen
    arena,             \* CodeEntity objects handled on their own
    analysis,          \* what the last analysis call returned
    thread             \* AnalysisManager.analysis_thread: the worker of the pass over the files

\* the state of a Project
project_vars == <<files, dependency_graph, file_count, entity_count, project_type,
                  issues, snapshot>>

\* what is handled outside a project
alone == <<cf, pc, arena>>

vars == <<disk, files, dependency_graph, file_count, entity_count, project_type,
          issues, snapshot, exc, ret, hist, edits, cf, pc, arena, analysis, thread>>

----------------------------------------------------------------------------
(* Bounds of the model *)

\* the most lines of a file the extractors are run on
MaxLines == 3

\* the most changes made in one run, taken together: edits of the tree by other
\* programs, saves from the editor, snapshots written, issues attached, loads
\* and parses of a single file, operations on entities
MaxEdits == 2

\* the most files one analysis pass is given
MaxFiles == 3

\* the most lines of a Python file whose scopes are followed through a class,
\* a method, the end of the method and what comes after
MaxPyLines == 5

----------------------------------------------------------------------------
(* Text *)

\* end_line = None, as a number no line has
NoLine == -1

\* parent = None, as an index no entity has
NoParent == 0

\* Python's `s in t` on strings
IsSubstr(s, t) ==
    \E i \in 0..(Len(t) - Len(s)) : SubSeq(t, i + 1, i + Len(s)) = s

\* str.endswith
EndsWith(t, s) ==
    Len(s) <= Len(t) /\ SubSeq(t, Len(t) - Len(s) + 1, Len(t)) = s

\* str.startswith
StartsWith(t, s) ==
    Len(s) <= Len(t) /\ SubSeq(t, 1, Len(s)) = s

\* the positions of character c in t
Positions(t, c) == {i \in 1..Len(t) : t[i] = c}

\* the largest and the smallest member of a non-empty set of numbers
SetMax(S) == CHOOSE x \in S : \A y \in S : y <= x
SetMin(S) == CHOOSE x \in S : \A y \in S : x <= y

\* os.path.basename
basename(p) ==
    IF Positions(p, "/") = {} THEN p
    ELSE SubSeq(p, SetMax(Positions(p, "/")) + 1, Len(p))

\* str.split(c)[0]
SplitFirst(t, c) ==
    IF Positions(t, c) = {} THEN t
    ELSE SubSeq(t, 1, SetMin(Positions(t, c)) - 1)

\* the directory names on the way to p (the components of p before its basename)
RECURSIVE DirParts(_)
DirParts(p) ==
    IF Positions(p, "/") = {} THEN {}
    ELSE LET k == SetMin(Positions(p, "/"))
         IN  {SubSeq(p, 1, k - 1)} \cup DirParts(SubSeq(p, k + 1, Len(p)))

\* os.path.splitext(p)[1].lower()
splitext1(p) ==
    LET b == basename(p)
        dots == Positions(b, ".") \ {1}
    IN  IF dots = {} THEN <<>> ELSE SubSeq(b, SetMax(dots), Len(b))

\* the elements of a sequence
Range(s) == {s[i] : i \in 1..Len(s)}

\* sum(...) over a sequence of numbers
RECURSIVE SumSeq(_)
SumSeq(s) == IF s = <<>> THEN 0 ELSE Head(s) + SumSeq(Tail(s))


----------------------------------------------------------------------------
(* Source lines *)

\* A line, as the patterns of the extractors see it. Names and texts are
\* sequences of characters; <<>> stands for a group that did not take part.
\*   indent  len(line) - len(line.lstrip())
\*   kind    the construct whose pattern the line matches ("other": none)
\*   name    the identifier the pattern captures
\*   text    the module, path or package the pattern captures; for CSS the line itself
\*   parent  the class after `extends`
\*   impl    the list after `implements`
\*   opens, closes   line.count("{"), line.count("}")
BaseLine ==
    [kind |-> "other", indent |-> 0, name |-> <<>>, text |-> <<>>,
     parent |-> <<>>, impl |-> <<>>, opens |-> 0, closes |-> 0]

\* a line that declares `name` with construct `kind`, indented by `indent`
Decl(kind, indent, name) ==
    [BaseLine EXCEPT !.kind = kind, !.indent = indent, !.name = name]

\* a line that imports `text`
Import(kind, text) == [BaseLine EXCEPT !.kind = kind, !.text = text]

\* a CSS line, given as its characters ("s": a character of a selector or a
\* declaration, "{", "}", " ")
CssLine(text) ==
    [BaseLine EXCEPT !.text = text,
                     !.opens = Cardinality(Positions(text, "{")),
                     !.closes = Cardinality(Positions(text, "}"))]

\* the line with `o` opening and `c` closing braces added to it
Braces(line, o, c) == [line EXCEPT !.opens = o, !.closes = c]

\* an empty line: no pattern matches it, and len(line) - len(line.lstrip()) is 0
Blank == [BaseLine EXCEPT !.kind = "blank"]

----------------------------------------------------------------------------
(* CodeEntity *)

\* CodeEntity.__init__; entities live in their file's arena `ents` and are
\* referred to by index, children and parent included
CodeEntity(name, entity_type, start_line, end_line) ==
    [name |-> name, type |-> entity_type, start_line |-> start_line,
     end_line |-> end_line, children |-> <<>>, parent |-> NoParent, props |-> {}]

\* CodeEntity.add_child, on the arena: ents[p].add_child(ents[c])
add_child(ents, p, c) ==
    [ents EXCEPT ![p].children = Append(@, c), ![c].parent = p]

\* list.remove: drops the first occurrence of x
RemoveFirst(s, x) ==
    LET k == SetMin({i \in 1..Len(s) : s[i] = x})
    IN  SubSeq(s, 1, k - 1) \o SubSeq(s, k + 1, Len(s))

\* a removal that leaves the child's parent as it was
MutRemoveChildKeepParent(ents, p, c) ==
    IF c \in Range(ents[p].children)
    THEN [ents EXCEPT ![p].children = RemoveFirst(@, c)]
    ELSE ents

\* CodeEntity.remove_child, on the arena: ents[p].remove_child(ents[c])
remove_child(ents, p, c) ==
    IF c \in Range(ents[p].children)
    THEN [ents EXCEPT ![p].children = RemoveFirst(@, c), ![c].parent = NoParent]
    ELSE ents

----------------------------------------------------------------------------
(* CodeFile *)

\* utils.SUPPORTED_EXTENSIONS, in the dict's order
SUPPORTED_EXTENSIONS ==
    << [lang |-> "python",       exts |-> {<<".", "p", "y">>, <<".", "p", "y", "w">>, <<".", "p", "y", "i">>}],
       [lang |-> "flutter_dart", exts |-> {<<".", "d", "a", "r", "t">>}],
       [lang |-> "laravel_php",  exts |-> {<<".", "p", "h", "p">>, <<".", "b", "l", "a", "d", "e", ".", "p", "h", "p">>}],
       [lang |-> "javascript",   exts |-> {<<".", "j", "s">>, <<".", "j", "s", "x">>, <<".", "t", "s">>, <<".", "t", "s", "x">>}],
       [lang |-> "html",         exts |-> {<<".", "h", "t", "m", "l">>, <<".", "h", "t", "m">>}],
       [lang |-> "css",          exts |-> {<<".", "c", "s", "s">>, <<".", "s", "c", "s", "s">>, <<".", "s", "a", "s", "s">>}],
       [lang |-> "json",         exts |-> {<<".", "j", "s", "o", "n">>}] >>

\* the language tag of "no language" (get_file_type's None)
NoLanguage == ""

\* utils.get_file_type: the first language whose extension list holds the file's extension
get_file_type(file_path) ==
    LET ext == splitext1(file_path)
        hits == {i \in 1..Len(SUPPORTED_EXTENSIONS) : ext \in SUPPORTED_EXTENSIONS[i].exts}
    IN  IF hits = {} THEN NoLanguage ELSE SUPPORTED_EXTENSIONS[SetMin(hits)].lang

\* content = None
NoContent == [loaded |-> FALSE, lines |-> <<>>]

\* a content that was read
Content(lines) == [loaded |-> TRUE, lines |-> lines]

\* hash = None
NoHash == [set |-> FALSE, md5 |-> <<>>]

\* hashlib.md5(bytes).hexdigest(): one digest per byte content
md5(lines) == [set |-> TRUE, md5 |-> lines]

\* CodeFile.__init__ followed by set_relative_path (paths of the model are relative to root_dir)
CodeFile(file_path) ==
    [file_path |-> file_path, relative_path |-> file_path,
     language |-> get_file_type(file_path),
     content |-> NoContent, hash |-> NoHash,
     ents |-> <<>>, entities |-> <<>>,
     imports |-> <<>>, dependencies |-> {},
     modified |-> FALSE, errors |-> <<>>, issues |-> <<>>, line_count |-> 0]

----------------------------------------------------------------------------
(* The Python extractor *)

\* lines 291-299: every `import X` / `from X import` at the start of a line is
\* appended to imports; X without a dot is added to dependencies
RECURSIVE PyImports(_, _, _)
PyImports(f, lines, i) ==
    IF i > Len(lines) THEN f
    ELSE LET line == lines[i]
             hit == line.kind = "import" /\ line.indent = 0
             f1 == IF hit
                   THEN [f EXCEPT !.imports = Append(@, line.text),
                                  !.dependencies =
                                      IF Positions(line.text, ".") = {}
                                      THEN @ \cup {line.text} ELSE @]
                   ELSE f
         IN  PyImports(f1, lines, i + 1)

\* a block that ends at the 0-based index of the line before the closing one
MutPyCloseScopeLineBefore(st, i, current_indent) ==
    IF st.indent_level >= 0 /\ current_indent <= st.indent_level
    THEN IF st.current_class # 0
            /\ (st.current_function = 0 \/ current_indent <= st.indent_level - 4)
         THEN [st EXCEPT !.ents[st.current_class].end_line = i - 1,
                         !.current_class = 0, !.indent_level = -1]
         ELSE IF st.current_function # 0
              THEN [st EXCEPT !.ents[st.current_function].end_line = i - 1,
                              !.current_function = 0, !.indent_level = -1]
              ELSE st
    ELSE st

\* lines 316-328: the block that is open ends at a line indented no deeper than it
PyCloseScope(st, i, current_indent) ==
    IF st.indent_level >= 0 /\ current_indent <= st.indent_level
    THEN IF st.current_class # 0
            /\ (st.current_function = 0 \/ current_indent <= st.indent_level - 4)
         THEN [st EXCEPT !.ents[st.current_class].end_line = i,
                         !.current_class = 0, !.indent_level = -1]
         ELSE IF st.current_function # 0
              THEN [st EXCEPT !.ents[st.current_function].end_line = i,
                              !.current_function = 0, !.indent_level = -1]
              ELSE st
    ELSE st

\* str.isupper, for the identifiers of the model: some cased character, none lower-case
isupper(name) ==
    /\ \E i \in 1..Len(name) : name[i] \in {"A", "B", "C", "K", "X"}
    /\ \A i \in 1..Len(name) : name[i] \notin {"a", "b", "c", "f", "k", "m", "x"}

\* lines 330-419: the entity the line declares, if any. i is the 0-based line index.
PyDeclare(st, i, line) ==
    LET n == Len(st.ents) + 1
    IN  IF line.kind = "class" /\ line.indent = 0
        THEN [st EXCEPT !.ents = Append(@, CodeEntity(line.name, "class", i + 1, NoLine)),
                        !.entities = Append(@, n),
                        !.current_class = n, !.indent_level = line.indent]
        ELSE IF line.kind = "def" /\ line.indent = 0
        THEN [st EXCEPT !.ents = Append(@, CodeEntity(line.name, "function", i + 1, NoLine)),
                        !.entities = Append(@, n),
                        !.current_function = n, !.indent_level = line.indent]
        ELSE IF line.kind = "def" /\ line.indent > 0 /\ st.current_class # 0
        THEN [st EXCEPT !.ents = add_child(
                                     Append(@, CodeEntity(line.name, "method", i + 1, NoLine)),
                                     st.current_class, n),
                        !.current_function = n, !.indent_level = line.indent]
        ELSE IF line.kind = "assign" /\ line.indent = 0
                /\ ~StartsWith(line.name, <<"_">>) /\ ~isupper(line.name)
        THEN [st EXCEPT !.ents = Append(@, CodeEntity(line.name, "variable", i + 1, i + 1)),
                        !.entities = Append(@, n)]
        ELSE st

\* lines 312-419: the loop over the lines, from 0-based index i on
RECURSIVE PyLoop(_, _, _)
PyLoop(st, lines, i) ==
    IF i >= Len(lines) THEN st
    ELSE PyLoop(PyDeclare(PyCloseScope(st, i, lines[i + 1].indent), i, lines[i + 1]),
                lines, i + 1)

\* CodeFile._parse_python_entities
parse_python_entities(f) ==
    IF f.content.lines = <<>> THEN f
    ELSE LET f1 == PyImports(f, f.content.lines, 1)
             st == PyLoop([ents |-> f1.ents, entities |-> f1.entities,
                           current_class |-> 0, current_function |-> 0,
                           indent_level |-> -1],
                          f.content.lines, 0)
         IN  [f1 EXCEPT !.ents = st.ents, !.entities = st.entities]

----------------------------------------------------------------------------
(* The PHP/Laravel extractor *)

\* the string literals of the extractor, as their characters
PhpWords ==
    [Illuminate |-> <<"I", "l", "l", "u", "m", "i", "n", "a", "t", "e">>,
     App        |-> <<"A", "p", "p">>,
     Controller |-> <<"C", "o", "n", "t", "r", "o", "l", "l", "e", "r">>,
     Model      |-> <<"M", "o", "d", "e", "l">>,
     Eloquent   |-> <<"E", "l", "o", "q", "u", "e", "n", "t">>,
     Migration  |-> <<"M", "i", "g", "r", "a", "t", "i", "o", "n">>,
     Middleware |-> <<"M", "i", "d", "d", "l", "e", "w", "a", "r", "e">>]

\* lines 745-760: every `use X;` is appended to imports; the root package of a
\* namespaced X is added to dependencies unless it is App or Illuminate
RECURSIVE PhpImports(_, _, _)
PhpImports(f, lines, i) ==
    IF i > Len(lines) THEN f
    ELSE LET line == lines[i]
             main_package == SplitFirst(line.text, "\\")
             f1 == IF line.kind = "use"
                   THEN [f EXCEPT !.imports = Append(@, line.text),
                                  !.dependencies =
                                      IF Positions(line.text, "\\") # {}
                                         /\ main_package \notin {PhpWords.App, PhpWords.Illuminate}
                                      THEN @ \cup {main_package} ELSE @]
                   ELSE f
         IN  PhpImports(f1, lines, i + 1)

\* lines 798-812: the Laravel kind of a class; "TypeError" where the code
\* evaluates `"..." in None` (a class without extends, or without implements)
PhpLaravelKind(line) ==
    IF IsSubstr(PhpWords.Controller, line.name) THEN "controller"
    ELSE IF line.parent = <<>> THEN "TypeError"
    ELSE IF IsSubstr(PhpWords.Model, line.parent)
            \/ IsSubstr(PhpWords.Eloquent, line.name) \/ IsSubstr(PhpWords.Eloquent, line.parent)
            \/ IsSubstr(PhpWords.Eloquent, line.impl)
    THEN "model"
    ELSE IF IsSubstr(PhpWords.Migration, line.parent) THEN "migration"
    ELSE IF IsSubstr(PhpWords.Middleware, line.parent) THEN "middleware"
    ELSE IF line.impl = <<>> THEN "TypeError"
    ELSE IF IsSubstr(PhpWords.Middleware, line.impl) THEN "middleware"
    ELSE "class"

\* lines 817-829: the 0-based index of the line that closes the class opened at
\* line i, or -1 when the loop ends without break
RECURSIVE PhpClassEnd(_, _, _, _)
PhpClassEnd(lines, i, j, bracket_count) ==
    IF j >= Len(lines) THEN -1
    ELSE LET c == bracket_count + lines[j + 1].opens - lines[j + 1].closes
         IN  IF c <= 0 /\ j > i /\ lines[j + 1].closes > 0 THEN j
             ELSE PhpClassEnd(lines, i, j + 1, c)

\* lines 831-878: the methods and properties declared on lines j .. class_end - 1
\* become children of the class
RECURSIVE PhpMembers(_, _, _, _, _)
PhpMembers(ents, lines, cls, j, class_end) ==
    IF j >= class_end THEN ents
    ELSE LET line == lines[j + 1]
             n == Len(ents) + 1
             e1 == IF line.kind = "method"
                   THEN add_child(Append(ents, CodeEntity(line.name, "method", j + 1, NoLine)),
                                  cls, n)
                   ELSE IF line.kind = "property"
                   THEN add_child(Append(ents, CodeEntity(line.name, "property", j + 1, j + 1)),
                                  cls, n)
                   ELSE ents
         IN  PhpMembers(e1, lines, cls, j + 1, class_end)

\* lines 768-899: the loop over the lines, from 0-based index i on; st.raised
\* is the exception that ended it
RECURSIVE PhpLoop(_, _, _, _)
PhpLoop(st, lines, i, has_laravel) ==
    IF i >= Len(lines) THEN st
    ELSE LET line == lines[i + 1]
             n == Len(st.ents) + 1
         IN  IF line.kind = "class"
             THEN LET kind == IF has_laravel THEN PhpLaravelKind(line) ELSE "class"
                      found == PhpClassEnd(lines, i, i, 0)
                      class_end == IF found = -1 THEN i ELSE found
                      cls == CodeEntity(line.name, kind, i + 1,
                                        IF found = -1 THEN NoLine ELSE found + 1)
                  IN  IF kind = "TypeError"
                      THEN [st EXCEPT !.raised = "TypeError"]
                      ELSE PhpLoop([st EXCEPT
                                       !.ents = PhpMembers(Append(@, cls), lines, n,
                                                           i + 1, class_end),
                                       !.entities = Append(@, n)],
                                   lines, class_end + 1, has_laravel)
             ELSE IF line.kind = "function"
             THEN PhpLoop([st EXCEPT
                              !.ents = Append(@, CodeEntity(line.name, "function", i + 1, NoLine)),
                              !.entities = Append(@, n)],
                          lines, i + 1, has_laravel)
             ELSE PhpLoop(st, lines, i + 1, has_laravel)

\* CodeFile._parse_php_entities; `raised` is the exception it ends with ("" for none)
parse_php_entities(f) ==
    IF f.content.lines = <<>> THEN [f |-> f, raised |-> ""]
    ELSE LET f1 == PhpImports(f, f.content.lines, 1)
             has_laravel == \E k \in 1..Len(f1.imports) : IsSubstr(PhpWords.Illuminate, f1.imports[k])
             f2 == IF has_laravel THEN [f1 EXCEPT !.language = "laravel_php"] ELSE f1
             st == PhpLoop([ents |-> f2.ents, entities |-> f2.entities, raised |-> ""],
                           f.content.lines, 0, has_laravel)
         IN  [f |-> [f2 EXCEPT !.ents = st.ents, !.entities = st.entities],
              raised |-> st.raised]

----------------------------------------------------------------------------
(* The CSS extractor *)

\* str.strip, for texts whose only whitespace is " "
Strip(t) ==
    LET ink == {k \in 1..Len(t) : t[k] # " "}
    IN  IF ink = {} THEN <<>> ELSE SubSeq(t, SetMin(ink), SetMax(ink))

\* lines 1014-1018: the lines from i on, joined by " ", up to the first one
\* that brings a "}" (or to the last line)
RECURSIVE CssFullLine(_, _, _)
CssFullLine(lines, j, full_line) ==
    IF j < Len(lines) - 1 /\ Positions(full_line, "}") = {}
    THEN CssFullLine(lines, j + 1, full_line \o <<" ">> \o lines[j + 2].text)
    ELSE full_line

\* lines 1020-1024: re.findall(r'([^{]+){[^}]*}', t) from position pos on, and
\* of its selectors the first that is not blank once stripped (<<>>: none)
RECURSIVE CssFirstSelector(_, _)
CssFirstSelector(t, pos) ==
    LET starts == {k \in pos..Len(t) : t[k] # "{"}
        s == SetMin(starts)
        opens == {k \in (s + 1)..Len(t) : t[k] = "{"}
        o == SetMin(opens)
        closes == {k \in (o + 1)..Len(t) : t[k] = "}"}
        c == SetMin(closes)
    IN  IF starts = {} THEN <<>>
        ELSE IF opens = {} THEN <<>>
        ELSE IF closes = {} THEN <<>>
        ELSE IF Strip(SubSeq(t, s, o - 1)) # <<>> THEN Strip(SubSeq(t, s, o - 1))
        ELSE CssFirstSelector(t, c + 1)

\* lines 1032-1037: the first line from i on that holds a "}", or i
CssBlockEnd(lines, i) ==
    LET ks == {k \in i..(Len(lines) - 1) : Positions(lines[k + 1].text, "}") # {}}
    IN  IF ks = {} THEN i ELSE SetMin(ks)

\* a loop that resumes at the line after the one a block started at
RECURSIVE MutCssLoopResumesInsideBlock(_, _, _)
MutCssLoopResumesInsideBlock(st, lines, i) ==
    IF i >= Len(lines) THEN st
    ELSE LET selector == CssFirstSelector(CssFullLine(lines, i, lines[i + 1].text), 1)
             end_line == CssBlockEnd(lines, i)
             n == Len(st.ents) + 1
             st1 == [st EXCEPT !.starts = Append(@, i)]
         IN  MutCssLoopResumesInsideBlock(
                 IF selector # <<>>
                 THEN [st1 EXCEPT !.ents = Append(@, CodeEntity(selector, "selector",
                                                                 i + 1, end_line + 1)),
                                  !.entities = Append(@, n)]
                 ELSE st1,
                 lines, i + 1)

\* lines 1008-1056: the loop over the lines, from 0-based index i on; st.starts
\* records the indices at which an iteration of the loop began
RECURSIVE CssLoop(_, _, _)
CssLoop(st, lines, i) ==
    IF i >= Len(lines) THEN st
    ELSE LET selector == CssFirstSelector(CssFullLine(lines, i, lines[i + 1].text), 1)
             end_line == CssBlockEnd(lines, i)
             n == Len(st.ents) + 1
             st1 == [st EXCEPT !.starts = Append(@, i)]
         IN  IF selector # <<>>
             THEN CssLoop([st1 EXCEPT
                              !.ents = Append(@, CodeEntity(selector, "selector",
                                                            i + 1, end_line + 1)),
                              !.entities = Append(@, n)],
                          lines, end_line + 1)
             ELSE CssLoop(st1, lines, i + 1)

\* CodeFile._parse_css_entities
parse_css_entities(f) ==
    IF f.content.lines = <<>> THEN f
    ELSE LET st == CssLoop([ents |-> f.ents, entities |-> f.entities, starts |-> <<>>],
                           f.content.lines, 0)
         IN  [f EXCEPT !.ents = st.ents, !.entities = st.entities]

----------------------------------------------------------------------------
(* The JavaScript/TypeScript/React extractor *)

\* str.lower, on the characters of the model (the upper-case ones are listed)
lower(t) ==
    LET LowerOf(c) ==
            IF c = "A" THEN "a" ELSE IF c = "B" THEN "b" ELSE IF c = "C" THEN "c"
            ELSE IF c = "K" THEN "k" ELSE IF c = "R" THEN "r" ELSE IF c = "X" THEN "x" ELSE c
    IN  [k \in 1..Len(t) |-> LowerOf(t[k])]

\* str.split("/")[:2] joined by "/"
FirstTwoParts(t) ==
    LET slashes == Positions(t, "/")
        rest == slashes \ {SetMin(slashes)}
    IN  IF rest = {} THEN t ELSE SubSeq(t, 1, SetMin(rest) - 1)

\* lines 452-461: the package a module path names
JsPackage(module) ==
    IF Positions(module, "/") # {}
    THEN IF StartsWith(SplitFirst(module, "/"), <<"@">>)
         THEN FirstTwoParts(module)
         ELSE SplitFirst(module, "/")
    ELSE module

\* lines 446-461: ES-module imports, require(...) and import(...) are appended
\* to imports and their package is added to dependencies
RECURSIVE JsImports(_, _, _)
JsImports(f, lines, i) ==
    IF i > Len(lines) THEN f
    ELSE LET line == lines[i]
             f1 == IF line.kind \in {"import", "require", "dynimport"}
                   THEN [f EXCEPT !.imports = Append(@, line.text),
                                  !.dependencies = @ \cup {JsPackage(line.text)}]
                   ELSE f
         IN  JsImports(f1, lines, i + 1)

react_ == <<"r", "e", "a", "c", "t">>

\* line 466: the tokens that mark an AI library
AiLibTokens ==
    { <<"o", "p", "e", "n", "a", "i">>, <<"c", "l", "a", "u", "d", "e">>,
      <<"a", "n", "t", "h", "r", "o", "p", "i", "c">>, <<"g", "p", "t">>,
      <<"l", "a", "n", "g", "c", "h", "a", "i", "n">>, <<"a", "i">>,
      <<"h", "u", "g", "g", "i", "n", "g", "f", "a", "c", "e">> }

\* ' '.join(imports)
RECURSIVE JoinSpace(_)
JoinSpace(ss) ==
    IF ss = <<>> THEN <<>>
    ELSE IF Len(ss) = 1 THEN ss[1]
    ELSE ss[1] \o <<" ">> \o JoinSpace(Tail(ss))

\* a tag that prefers react to the AI libraries
MutJsLanguageReactFirst(f) ==
    LET has_react == \E k \in 1..Len(f.imports) : IsSubstr(react_, lower(f.imports[k]))
        has_ai_libs == \E lib \in AiLibTokens : IsSubstr(lib, lower(JoinSpace(f.imports)))
    IN  IF has_react THEN "react"
        ELSE IF has_ai_libs THEN "ai_javascript"
        ELSE f.language

\* lines 463-471: the language tag after the imports were read
JsLanguage(f) ==
    LET has_react == \E k \in 1..Len(f.imports) : IsSubstr(react_, lower(f.imports[k]))
        has_ai_libs == \E lib \in AiLibTokens : IsSubstr(lib, lower(JoinSpace(f.imports)))
    IN  IF has_ai_libs THEN "ai_javascript"
        ELSE IF has_react THEN "react"
        ELSE f.language

\* lines 501-510, 535-544, 655-666: the 0-based index of the first line after
\* line i at which the brace count is back to 0, or -1
RECURSIVE BraceEnd(_, _, _, _)
BraceEnd(lines, i, j, bracket_count) ==
    IF j >= Len(lines) THEN -1
    ELSE LET c == bracket_count + lines[j + 1].opens - lines[j + 1].closes
         IN  IF c = 0 /\ j > i THEN j ELSE BraceEnd(lines, i, j + 1, c)

\* end_line of the scope opened at line i
ScopeEndLine(lines, i) ==
    IF BraceEnd(lines, i, i, 0) = -1 THEN NoLine ELSE BraceEnd(lines, i, i, 0) + 1

\* lines 474-584: the loop over the lines, from 0-based index i on
RECURSIVE JsLoop(_, _, _, _)
JsLoop(st, lines, i, has_react) ==
    IF i >= Len(lines) THEN st
    ELSE LET line == lines[i + 1]
             n == Len(st.ents) + 1
             one(e) == [st EXCEPT !.ents = Append(@, e), !.entities = Append(@, n)]
             two(e1, e2) == [st EXCEPT !.ents = Append(Append(@, e1), e2),
                                       !.entities = Append(Append(@, n), n + 1)]
             constant == CodeEntity(line.name, "constant", i + 1, i + 1)
             st1 ==
                 IF line.kind = "class"
                 THEN one(CodeEntity(line.name, "class", i + 1, ScopeEndLine(lines, i)))
                 ELSE IF line.kind = "function"
                 THEN one(CodeEntity(line.name, "function", i + 1, ScopeEndLine(lines, i)))
                 ELSE IF line.kind = "component"
                 THEN IF has_react
                      THEN two(CodeEntity(line.name, "component", i + 1, NoLine), constant)
                      ELSE one(constant)
                 ELSE IF line.kind \in {"const", "require"}
                 THEN one(constant)
                 ELSE IF line.kind \in {"let", "var"}
                 THEN one(CodeEntity(line.name, "variable", i + 1, i + 1))
                 ELSE st
         IN  JsLoop(st1, lines, i + 1, has_react)

\* CodeFile._parse_javascript_entities
parse_javascript_entities(f) ==
    IF f.content.lines = <<>> THEN f
    ELSE LET f1 == JsImports(f, f.content.lines, 1)
             has_react == \E k \in 1..Len(f1.imports) : IsSubstr(react_, lower(f1.imports[k]))
             st == JsLoop([ents |-> f1.ents, entities |-> f1.entities],
                          f.content.lines, 0, has_react)
         IN  [f1 EXCEPT !.language = JsLanguage(f1),
                        !.ents = st.ents, !.entities = st.entities]

----------------------------------------------------------------------------
(* The Dart/Flutter extractor *)

\* the string literals of the extractor, as their characters
DartWords ==
    [package         |-> <<"p", "a", "c", "k", "a", "g", "e">>,
     flutter         |-> <<"f", "l", "u", "t", "t", "e", "r">>,
     Widget          |-> <<"W", "i", "d", "g", "e", "t">>,
     State           |-> <<"S", "t", "a", "t", "e">>,
     StatelessWidget |-> <<"S", "t", "a", "t", "e", "l", "e", "s", "s", "W", "i", "d", "g", "e", "t">>,
     StatefulWidget  |-> <<"S", "t", "a", "t", "e", "f", "u", "l", "W", "i", "d", "g", "e", "t">>]

\* str.split(c, 1)[1]
AfterFirst(t, c) == SubSeq(t, SetMin(Positions(t, c)) + 1, Len(t))

\* lines 603-613: every import is appended to imports; the package of a
\* `package:` import is added to dependencies
RECURSIVE DartImports(_, _, _)
DartImports(f, lines, i) ==
    IF i > Len(lines) THEN f
    ELSE LET line == lines[i]
             f1 == IF line.kind = "import"
                   THEN [f EXCEPT !.imports = Append(@, line.text),
                                  !.dependencies =
                                      IF Positions(line.text, ":") # {}
                                         /\ SplitFirst(line.text, ":") = DartWords.package
                                      THEN @ \cup {SplitFirst(AfterFirst(line.text, ":"), "/")}
                                      ELSE @]
                   ELSE f
         IN  DartImports(f1, lines, i + 1)

\* lines 668-700: the methods and variables declared on lines j .. class_end - 1
\* become children of the class
RECURSIVE DartMembers(_, _, _, _, _)
DartMembers(ents, lines, cls, j, class_end) ==
    IF j >= class_end THEN ents
    ELSE LET line == lines[j + 1]
             n == Len(ents) + 1
             e1 == IF line.kind = "method"
                   THEN add_child(Append(ents, CodeEntity(line.name, "method", j + 1, NoLine)),
                                  cls, n)
                   ELSE IF line.kind = "variable"
                   THEN add_child(Append(ents, CodeEntity(line.name, "variable", j + 1, j + 1)),
                                  cls, n)
                   ELSE ents
         IN  DartMembers(e1, lines, cls, j + 1, class_end)

\* the first root entity (an index of ents) named `name`, or 0
FirstRootNamed(st, name) ==
    LET hits == {k \in 1..Len(st.entities) : st.ents[st.entities[k]].name = name}
    IN  IF hits = {} THEN 0 ELSE st.entities[SetMin(hits)]

\* lines 702-712: a class that extends StatelessWidget or StatefulWidget marks
\* the first root entity of its name as a widget
DartWidget(st, line) ==
    LET e == FirstRootNamed(st, line.name)
    IN  IF line.kind = "class" /\ e # 0
           /\ (StartsWith(line.parent, DartWords.StatelessWidget) \/ StartsWith(line.parent, DartWords.StatefulWidget))
        THEN [st EXCEPT !.ents[e].type = "widget", !.ents[e].props = @ \cup {"is_widget"}]
        ELSE st

\* lines 714-722: `class _XState extends State<W>` sets has_state on the first
\* root entity named W that was extracted so far (line.text is W)
DartState(st, line) ==
    LET e == FirstRootNamed(st, line.text)
    IN  IF line.kind = "class" /\ line.parent = DartWords.State /\ line.text # <<>>
           /\ StartsWith(line.name, <<"_">>) /\ EndsWith(line.name, DartWords.State)
           /\ Len(line.name) > Len(DartWords.State) + 1 /\ e # 0
        THEN [st EXCEPT !.ents[e].props = @ \cup {"has_state"}]
        ELSE st

\* lines 626-700: the class a line declares, with its members
DartClass(st, lines, i, has_flutter) ==
    LET line == lines[i + 1]
        n == Len(st.ents) + 1
        found == BraceEnd(lines, i, i, 0)
        class_end == IF found = -1 THEN i ELSE found
        is_widget == has_flutter /\ line.parent # <<>> /\ IsSubstr(DartWords.Widget, line.parent)
        cls == [CodeEntity(line.name, IF is_widget THEN "widget" ELSE "class", i + 1,
                           IF found = -1 THEN NoLine ELSE found + 1)
                EXCEPT !.props = IF is_widget THEN {"is_widget"} ELSE {}]
    IN  IF line.kind = "class"
        THEN [st EXCEPT !.ents = DartMembers(Append(@, cls), lines, n, i + 1, class_end),
                        !.entities = Append(@, n)]
        ELSE st

\* lines 621-724: the loop over the lines, from 0-based index i on
RECURSIVE DartLoop(_, _, _, _)
DartLoop(st, lines, i, has_flutter) ==
    IF i >= Len(lines) THEN st
    ELSE LET line == lines[i + 1]
             st1 == DartClass(st, lines, i, has_flutter)
             st2 == IF has_flutter THEN DartWidget(st1, line) ELSE st1
             st3 == IF has_flutter THEN DartState(st2, line) ELSE st2
         IN  DartLoop(st3, lines, i + 1, has_flutter)

\* CodeFile._parse_dart_entities
parse_dart_entities(f) ==
    IF f.content.lines = <<>> THEN f
    ELSE LET f1 == DartImports(f, f.content.lines, 1)
             has_flutter == \E k \in 1..Len(f1.imports) : IsSubstr(DartWords.flutter, f1.imports[k])
             f2 == IF has_flutter THEN [f1 EXCEPT !.language = "flutter_dart"] ELSE f1
             st == DartLoop([ents |-> f2.ents, entities |-> f2.entities],
                            f.content.lines, 0, has_flutter)
         IN  [f2 EXCEPT !.ents = st.ents, !.entities = st.entities]

----------------------------------------------------------------------------
(* The HTML extractor *)

\* the string literals of the extractor, as their characters
HtmlWords ==
    [css |-> <<".", "c", "s", "s">>, http |-> <<"h", "t", "t", "p">>,
     form |-> <<"f", "o", "r", "m", "_">>]

\* str(i) for a line index
RECURSIVE str(_)
str(i) ==
    LET digits == <<"0", "1", "2", "3", "4", "5", "6", "7", "8", "9">>
    IN  IF i < 10 THEN <<digits[i + 1]>> ELSE str(i \div 10) \o <<digits[(i % 10) + 1]>>

\* the root entity e appended to the extraction state
AddRoot(st, e) ==
    [st EXCEPT !.ents = Append(@, e), !.entities = Append(@, Len(st.ents) + 1)]

\* lines 915-928: the first <title> line becomes an entity
HtmlTitle(st, lines) ==
    LET ks == {k \in 0..(Len(lines) - 1) : lines[k + 1].kind = "title"}
    IN  IF ks = {} THEN st
        ELSE AddRoot(st, CodeEntity(lines[SetMin(ks) + 1].name, "title",
                                    SetMin(ks) + 1, SetMin(ks) + 1))

\* not src.startswith(('//', 'http'))
IsLocal(src) == ~StartsWith(src, <<"/", "/">>) /\ ~StartsWith(src, HtmlWords.http)

\* lines 930-961: <script src> and <link href> are appended to imports; local
\* scripts and local stylesheets become entities
RECURSIVE HtmlImports(_, _, _)
HtmlImports(st, lines, i) ==
    IF i >= Len(lines) THEN st
    ELSE LET line == lines[i + 1]
             st1 == IF line.kind \in {"script", "link"}
                    THEN [st EXCEPT !.imports = Append(@, line.text)] ELSE st
             st2 == IF line.kind = "script" /\ Positions(line.text, "/") # {}
                       /\ IsLocal(line.text)
                    THEN AddRoot(st1, CodeEntity(basename(line.text), "script", i + 1, i + 1))
                    ELSE IF line.kind = "link" /\ IsSubstr(HtmlWords.css, line.text)
                            /\ IsLocal(line.text)
                    THEN AddRoot(st1, CodeEntity(basename(line.text), "stylesheet", i + 1, i + 1))
                    ELSE st1
         IN  HtmlImports(st2, lines, i + 1)

\* lines 975-980: the index of the first </form> line after line i, or len(lines)
HtmlFormEnd(lines, i) ==
    LET js == {j \in (i + 1)..(Len(lines) - 1) : lines[j + 1].kind = "formend"}
    IN  IF js = {} THEN Len(lines) ELSE SetMin(js)

\* lines 963-983: every <form> line becomes an entity that ends at its </form>
RECURSIVE HtmlForms(_, _, _)
HtmlForms(st, lines, i) ==
    IF i >= Len(lines) THEN st
    ELSE LET line == lines[i + 1]
             form_id == IF line.name # <<>> THEN line.name ELSE HtmlWords.form \o str(i)
             st1 == IF line.kind = "form"
                    THEN AddRoot(st, CodeEntity(form_id, "form", i + 1,
                                                HtmlFormEnd(lines, i) + 1))
                    ELSE st
         IN  HtmlForms(st1, lines, i + 1)

\* lines 985-995: every <div id> becomes an entity without end_line
RECURSIVE HtmlDivs(_, _, _)
HtmlDivs(st, lines, i) ==
    IF i >= Len(lines) THEN st
    ELSE LET line == lines[i + 1]
             st1 == IF line.kind = "div"
                    THEN AddRoot(st, CodeEntity(line.name, "div", i + 1, NoLine))
                    ELSE st
         IN  HtmlDivs(st1, lines, i + 1)

\* CodeFile._parse_html_entities
parse_html_entities(f) ==
    IF f.content.lines = <<>> THEN f
    ELSE LET lines == f.content.lines
             st == HtmlDivs(HtmlForms(HtmlImports(
                       HtmlTitle([ents |-> f.ents, entities |-> f.entities,
                                  imports |-> f.imports], lines),
                       lines, 0), lines, 0), lines, 0)
         IN  [f EXCEPT !.ents = st.ents, !.entities = st.entities, !.imports = st.imports]

----------------------------------------------------------------------------
(* CodeFile: load, parse, save *)

\* what is at a path of the tree: nothing, or a file with its lines, which the
\* process may or may not be permitted to open
NoFile == [exists |-> FALSE, readable |-> FALSE, lines |-> <<>>]
DiskFile(lines, readable) == [exists |-> TRUE, readable |-> readable, lines |-> lines]

\* utils.read_file: the text of the file, None when it cannot be opened
read_file(d) == IF d.exists /\ d.readable THEN Content(d.lines) ELSE NoContent

\* utils.calculate_file_hash: the MD5 of the bytes on disk, None on any error
calculate_file_hash(d) == IF d.exists /\ d.readable THEN md5(d.lines) ELSE NoHash

\* CodeFile.load_content; d_read is the file when read_file opens it, d_hash
\* the file when calculate_file_hash opens it afterwards
load_content(f, d_read, d_hash) ==
    IF read_file(d_read).loaded
    THEN [f |-> [f EXCEPT !.content = read_file(d_read),
                          !.hash = calculate_file_hash(d_hash),
                          !.line_count = IF d_hash.exists THEN Len(d_read.lines) ELSE @],
          ret |-> TRUE]
    ELSE [f |-> [f EXCEPT !.content = NoContent], ret |-> FALSE]

\* lines 259-274: the extractor the language tag selects; `raised` is the
\* exception it ends with ("" for none)
Extract(f) ==
    IF f.language = "python" THEN [f |-> parse_python_entities(f), raised |-> ""]
    ELSE IF f.language \in {"dart", "flutter_dart"}
    THEN [f |-> parse_dart_entities(f), raised |-> ""]
    ELSE IF f.language \in {"php", "laravel_php"} THEN parse_php_entities(f)
    ELSE IF f.language \in {"javascript", "react", "typescript"}
    THEN [f |-> parse_javascript_entities(f), raised |-> ""]
    ELSE IF f.language = "html" THEN [f |-> parse_html_entities(f), raised |-> ""]
    ELSE IF f.language = "css" THEN [f |-> parse_css_entities(f), raised |-> ""]
    ELSE [f |-> f, raised |-> ""]

\* a parse that reports success although the extractor raised
MutParseLoadedReportsSuccess(f) ==
    LET f0 == [f EXCEPT !.ents = <<>>, !.entities = <<>>, !.errors = <<>>,
                        !.language = IF @ = NoLanguage THEN get_file_type(f.file_path) ELSE @]
        x == Extract(f0)
    IN  IF x.raised = ""
        THEN [f |-> x.f, ret |-> TRUE, raised |-> FALSE]
        ELSE [f |-> [x.f EXCEPT !.errors = Append(@, x.raised)], ret |-> TRUE,
              raised |-> TRUE]

\* lines 256-282: parse_entities once the content is there
ParseLoaded(f) ==
    LET f0 == [f EXCEPT !.ents = <<>>, !.entities = <<>>, !.errors = <<>>,
                        !.language = IF @ = NoLanguage THEN get_file_type(f.file_path) ELSE @]
        x == Extract(f0)
    IN  IF x.raised = ""
        THEN [f |-> x.f, ret |-> TRUE, raised |-> FALSE]
        ELSE [f |-> [x.f EXCEPT !.errors = Append(@, x.raised)], ret |-> FALSE,
              raised |-> TRUE]

\* CodeFile.parse_entities; d_read and d_hash as for load_content
parse_entities(f, d_read, d_hash) ==
    LET l == load_content(f, d_read, d_hash)
    IN  IF ~f.content.loaded /\ ~l.ret
        THEN [f |-> l.f, ret |-> FALSE, raised |-> FALSE]
        ELSE ParseLoaded(IF f.content.loaded THEN f ELSE l.f)

\* CodeFile.save_content once write_file has written new_lines; d_hash is the
\* file when calculate_file_hash and os.path.getmtime open it afterwards.
\* getmtime raises when the file is gone, before line_count is set and the
\* content is parsed.
save_content(f, new_lines, d_hash) ==
    LET f1 == [f EXCEPT !.content = Content(new_lines),
                        !.hash = calculate_file_hash(d_hash),
                        !.modified = TRUE]
    IN  IF d_hash.exists
        THEN [f |-> ParseLoaded([f1 EXCEPT !.line_count = Len(new_lines)]).f,
              exc |-> "None"]
        ELSE [f |-> f1, exc |-> "OSError"]

----------------------------------------------------------------------------
(* Project *)

\* utils.DEFAULT_EXCLUDED_DIRS
DEFAULT_EXCLUDED_DIRS ==
    { <<"_", "_", "p", "y", "c", "a", "c", "h", "e", "_", "_">>, <<".", "g", "i", "t">>,
      <<".", "s", "v", "n">>, <<"n", "o", "d", "e", "_", "m", "o", "d", "u", "l", "e", "s">>,
      <<"v", "e", "n", "v">>, <<"e", "n", "v">>, <<".", "D", "S", "_", "S", "t", "o", "r", "e">>,
      <<".", "i", "d", "e", "a">>, <<".", "v", "s", "c", "o", "d", "e">>, <<"d", "i", "s", "t">>,
      <<"b", "u", "i", "l", "d">>, <<".", "p", "y", "t", "e", "s", "t", "_", "c", "a", "c", "h", "e">>,
      <<".", "n", "e", "x", "t">>, <<"b", "i", "n">>, <<"o", "b", "j">>,
      <<"t", "a", "r", "g", "e", "t">>, <<"v", "e", "n", "d", "o", "r">> }

\* every extension of utils.SUPPORTED_EXTENSIONS
AllExtensions == UNION {SUPPORTED_EXTENSIONS[i].exts : i \in 1..Len(SUPPORTED_EXTENSIONS)}

\* a walk that prunes only the excluded directories of the top of the tree
MutFindFilesTopOnly(tree, extensions, excluded_dirs) ==
    {p \in DOMAIN tree :
        /\ tree[p].exists
        /\ (Positions(p, "/") # {} => SplitFirst(p, "/") \notin excluded_dirs)
        /\ \E ext \in extensions : EndsWith(basename(p), ext)}

\* utils.find_files: the files of the tree that lie under no excluded directory
\* and end with one of the extensions (os.walk fixes no order among them)
find_files(tree, extensions, excluded_dirs) ==
    {p \in DOMAIN tree :
        /\ tree[p].exists
        /\ DirParts(p) \cap excluded_dirs = {}
        /\ \E ext \in extensions : EndsWith(basename(p), ext)}

\* the orders in which a set can be listed
Orderings(S) ==
    {q \in [1..Cardinality(S) -> S] : \A i, j \in 1..Cardinality(S) : i # j => q[i] # q[j]}

\* keys(files)
Keys(fs) == {fs[i].relative_path : i \in 1..Len(fs)}

\* files[key], for a key of files
Get(fs, key) == fs[CHOOSE i \in 1..Len(fs) : fs[i].relative_path = key]

\* a dict that keeps the old record beside the new one
MutDictSetAppend(fs, key, value) == Append(fs, value)

\* files[key] = value: a dict keeps a key it already holds in its place
DictSet(fs, key, value) ==
    IF key \in Keys(fs)
    THEN [i \in 1..Len(fs) |-> IF fs[i].relative_path = key THEN value ELSE fs[i]]
    ELSE Append(fs, value)

\* utils.detect_project_type for a tree without a manifest file: the language
\* with the most files, the first one of SUPPORTED_EXTENSIONS among equals
detect_project_type(tree) ==
    LET count(i) == Cardinality(find_files(tree, SUPPORTED_EXTENSIONS[i].exts,
                                           DEFAULT_EXCLUDED_DIRS))
        best == CHOOSE i \in 1..Len(SUPPORTED_EXTENSIONS) :
                    /\ \A j \in 1..Len(SUPPORTED_EXTENSIONS) : count(j) <= count(i)
                    /\ \A j \in 1..(i - 1) : count(j) < count(i)
    IN  SUPPORTED_EXTENSIONS[best].lang

\* an empty nx.DiGraph()
EmptyGraph == [nodes |-> {}, edges |-> {}]

\* a match that asks for the file's stem inside the token
MutMatchesStemInToken(dependency, dep_path) ==
    IsSubstr(SplitFirst(basename(dep_path), "."), dependency)

\* a graph with an edge to every file a dependency matches
MutBuildGraphEveryMatch(fs) ==
    [nodes |-> Keys(fs),
     edges |-> {<<fs[i].relative_path, fs[j].relative_path>> :
                   <<i, j>> \in {x \in (1..Len(fs)) \X (1..Len(fs)) :
                                    \E d \in fs[x[1]].dependencies :
                                        IsSubstr(d, SplitFirst(basename(fs[x[2]].relative_path), "."))}}]

\* line 1277: dependency in os.path.basename(dep_path).split(".")[0]
Matches(dependency, dep_path) ==
    IsSubstr(dependency, SplitFirst(basename(dep_path), "."))

\* lines 1276-1279: the file a dependency resolves to, as its position in
\* files (the first match in the dict's order), 0 when no file matches
FirstMatch(fs, dependency) ==
    LET hits == {k \in 1..Len(fs) : Matches(dependency, fs[k].relative_path)}
    IN  IF hits = {} THEN 0 ELSE SetMin(hits)

\* Project._build_dependency_graph
build_dependency_graph(fs) ==
    [nodes |-> Keys(fs),
     edges |-> {<<fs[i].relative_path, fs[FirstMatch(fs, d)].relative_path>> :
                   <<i, d>> \in {x \in (1..Len(fs)) \X UNION {fs[k].dependencies : k \in 1..Len(fs)} :
                                    x[2] \in fs[x[1]].dependencies /\ FirstMatch(fs, x[2]) # 0}}]

\* lines 1241-1249, for one found file: a fresh CodeFile is loaded, parsed
\* when it loaded, and stored under its relative path
ScanOne(fs, tree, file_path) ==
    LET code_file == CodeFile(file_path)
        loaded == load_content(code_file, tree[file_path], tree[file_path])
    IN  DictSet(fs, file_path,
                IF loaded.ret THEN ParseLoaded(loaded.f).f ELSE loaded.f)

\* lines 1238-1249: the loop over found_files
RECURSIVE ScanLoop(_, _, _)
ScanLoop(fs, tree, found_files) ==
    IF found_files = <<>> THEN fs
    ELSE ScanLoop(ScanOne(fs, tree, Head(found_files)), tree, Tail(found_files))

\* sum(len(f.entities) for f in files.values())
CountEntities(fs) == SumSeq([i \in 1..Len(fs) |-> Len(fs[i].entities)])

----------------------------------------------------------------------------
(* The JSON snapshot *)

\* CodeEntity.to_dict: the entity with its children nested; the parent link is
\* not written
RECURSIVE EntityToDict(_, _)
EntityToDict(ents, e) ==
    [name |-> ents[e].name, type |-> ents[e].type,
     start_line |-> ents[e].start_line, end_line |-> ents[e].end_line,
     props |-> ents[e].props,
     children |-> [k \in 1..Len(ents[e].children) |-> EntityToDict(ents, ents[e].children[k])]]

\* CodeEntity.from_dict: the entity is appended to the arena and each child,
\* restored in turn, is attached with add_child
RECURSIVE EntityFromDict(_, _)
RECURSIVE ChildrenFromDict(_, _, _, _)
ChildrenFromDict(ents, parent, children, k) ==
    IF k > Len(children) THEN ents
    ELSE ChildrenFromDict(add_child(EntityFromDict(ents, children[k]), parent, Len(ents) + 1),
                          parent, children, k + 1)
EntityFromDict(ents, data) ==
    ChildrenFromDict(
        Append(ents, [CodeEntity(data.name, data.type, data.start_line, data.end_line)
                      EXCEPT !.props = data.props]),
        Len(ents) + 1, data.children, 1)

\* CodeFile.to_dict (the content is not written)
FileToDict(f) ==
    [file_path |-> f.file_path, relative_path |-> f.relative_path,
     language |-> f.language, hash |-> f.hash,
     entities |-> [k \in 1..Len(f.entities) |-> EntityToDict(f.ents, f.entities[k])],
     imports |-> f.imports, dependencies |-> f.dependencies,
     modified |-> f.modified, errors |-> f.errors, issues |-> f.issues,
     line_count |-> f.line_count]

\* lines 1167-1170: the root entities are restored one after the other
RECURSIVE RootsFromDict(_, _, _)
RootsFromDict(f, entities, k) ==
    IF k > Len(entities) THEN f
    ELSE RootsFromDict([f EXCEPT !.ents = EntityFromDict(@, entities[k]),
                                 !.entities = Append(@, Len(f.ents) + 1)],
                       entities, k + 1)

\* CodeFile.from_dict
FileFromDict(data) ==
    RootsFromDict(
        [CodeFile(data.file_path) EXCEPT
            !.language = IF data.language # NoLanguage THEN data.language ELSE @,
            !.relative_path = data.relative_path, !.hash = data.hash,
            !.imports = data.imports, !.dependencies = data.dependencies,
            !.modified = data.modified, !.errors = data.errors,
            !.issues = data.issues, !.line_count = data.line_count],
        data.entities, 1)

\* no snapshot was written yet
NoSnapshot == [written |-> FALSE]

\* Project.to_dict: the graph is written only when it has a node
ProjectToDict ==
    [written |-> TRUE,
     project_type |-> project_type, file_count |-> file_count,
     entity_count |-> entity_count, issues |-> issues,
     files |-> [k \in 1..Len(files) |-> FileToDict(files[k])],
     has_graph |-> dependency_graph.nodes # {},
     nodes |-> dependency_graph.nodes, edges |-> dependency_graph.edges]

\* a restore that appends the children without setting their parent
MutRestoredFilesNoParent(data) ==
    [k \in 1..Len(data.files) |->
        LET f == FileFromDict(data.files[k])
        IN  [f EXCEPT !.ents = [e \in 1..Len(f.ents) |-> [f.ents[e] EXCEPT !.parent = NoParent]]]]

\* lines 1636-1639: the files of a snapshot, restored in its order
RestoredFiles(data) == [k \in 1..Len(data.files) |-> FileFromDict(data.files[k])]

\* a restore that takes the nodes from the edges alone
MutRestoredGraphNoNodes(data) ==
    IF data.has_graph
    THEN [nodes |-> UNION {{e[1], e[2]} : e \in data.edges}, edges |-> data.edges]
    ELSE build_dependency_graph(RestoredFiles(data))

\* lines 1641-1656: the graph of a snapshot, or the graph rebuilt from the
\* restored files when the snapshot holds none
RestoredGraph(data) ==
    IF data.has_graph
    THEN [nodes |-> data.nodes \cup UNION {{e[1], e[2]} : e \in data.edges},
          edges |-> data.edges]
    ELSE build_dependency_graph(RestoredFiles(data))

----------------------------------------------------------------------------
(* The project and its tree: state machine *)

\* the paths of the tree
a_py == <<"a", ".", "p", "y">>
ab_py == <<"a", "b", ".", "p", "y">>
TreePaths == {a_py, ab_py}

\* the contents the files of the tree take
TreeContents ==
    { <<Import("import", <<"a">>)>>,
      <<Import("import", <<"a", "b">>), Decl("class", 0, <<"C">>), Decl("def", 4, <<"m">>)>> }

\* what can be at a path of the tree
DiskEntries ==
    {NoFile, DiskFile(<<>>, FALSE)} \cup {DiskFile(c, TRUE) : c \in TreeContents}

\* what a call returned: a truth value or a count
Returned(ok, n) == [ok |-> ok, n |-> n]

\* what the claims compare across operations
Observed ==
    [keys |-> Keys(files),
     per_file |-> [k \in 1..Len(files) |->
                      [relative_path |-> files[k].relative_path,
                       ents |-> files[k].ents, entities |-> files[k].entities,
                       imports |-> files[k].imports,
                       dependencies |-> files[k].dependencies]],
     file_count |-> file_count, entity_count |-> entity_count,
     edges |-> dependency_graph.edges]

\* an entity tree as a structure: names, kinds, line ranges, the children in
\* their order, and for each entity the entity its parent link names
RECURSIVE EntityTree(_, _)
EntityTree(ents, e) ==
    [name |-> ents[e].name, type |-> ents[e].type,
     start_line |-> ents[e].start_line, end_line |-> ents[e].end_line,
     parent |-> IF ents[e].parent = NoParent THEN <<>>
                ELSE <<[name |-> ents[ents[e].parent].name,
                        start_line |-> ents[ents[e].parent].start_line]>>,
     children |-> [k \in 1..Len(ents[e].children) |-> EntityTree(ents, ents[e].children[k])]]

\* the entity trees of a file, in the order of its entity list
FileTrees(f) == [k \in 1..Len(f.entities) |-> EntityTree(f.ents, f.entities[k])]

\* what a snapshot is to bring back: the counts, the edges and every file's
\* entity trees
Indexed ==
    [file_count |-> file_count, entity_count |-> entity_count,
     edges |-> dependency_graph.edges,
     trees |-> [k \in 1..Len(files) |->
                   [relative_path |-> files[k].relative_path, trees |-> FileTrees(files[k])]]]

\* the history of an operation: its name, the paths a scan found, for a scan
\* that directly follows a scan what was observed before it, and whether the
\* extractor raised
History(op, matched, twice, pre) ==
    [op |-> op, matched |-> matched, twice |-> twice, pre |-> pre, raised |-> FALSE]
Did(op) == History(op, {}, FALSE, <<>>)

\* between two calls on cf
Idle == [at |-> "idle", seen |-> NoFile]

\* Project.__init__
NewProject ==
    /\ files = <<>>
    /\ dependency_graph = EmptyGraph
    /\ file_count = 0
    /\ entity_count = 0
    /\ project_type = ""
    /\ issues = <<>>
    /\ snapshot = NoSnapshot

\* no analysis was asked for yet
NoAnalysis == [op |-> "none"]

\* AnalysisManager.analysis_thread = None
NoThread == [at |-> "none"]

\* no call was made yet
NoCall ==
    /\ exc = "None"
    /\ ret = Returned(FALSE, -1)
    /\ hist = Did("init")
    /\ edits = 0
    /\ pc = Idle
    /\ analysis = NoAnalysis
    /\ thread = NoThread

\* a new Project over some tree; no file or entity is handled on its own
Init ==
    /\ disk \in [TreePaths -> DiskEntries]
    /\ NewProject
    /\ NoCall
    /\ cf = CodeFile(a_py)
    /\ arena = <<>>

\* lines 1237-1261 of Project.scan_files, entered with the list found_files
ScanBody(found_files) ==
    /\ files' = ScanLoop(files, disk, found_files)
    /\ file_count' = Len(files')
    /\ entity_count' = CountEntities(files')
    /\ project_type' = detect_project_type(disk)
    /\ dependency_graph' = build_dependency_graph(files')
    /\ exc' = "None"
    /\ ret' = Returned(TRUE, file_count')
    /\ hist' = History("scan_body", Range(found_files), hist.op = "scan_body",
                       IF hist.op = "scan_body" THEN <<Observed>> ELSE <<>>)
    /\ UNCHANGED <<analysis, thread, alone, disk, issues, snapshot, edits>>

\* Project.scan_files: the call of find_files (lines 1231-1235) passes the
\* keywords include_patterns and exclude_patterns, which are not among the
\* parameters of find_files (utils.py line 284): TypeError is raised before
\* anything is scanned
scan_files ==
    IF {"include_patterns", "exclude_patterns"}
           \subseteq {"directory", "extensions", "excluded_dirs"}
    THEN \E found_files \in Orderings(find_files(disk, AllExtensions, DEFAULT_EXCLUDED_DIRS)) :
             ScanBody(found_files)
    ELSE /\ exc' = "TypeError"
         /\ ret' = Returned(FALSE, -1)
         /\ hist' = Did("scan_files")
         /\ UNCHANGED <<analysis, thread, alone, disk, files, dependency_graph, file_count, entity_count,
                        project_type, issues, snapshot, edits>>

\* the rest of Project.scan_files (lines 1237-1261) once find_files has
\* returned the supported files of the tree, in some order
scan_files_body ==
    \E found_files \in Orderings(find_files(disk, AllExtensions, DEFAULT_EXCLUDED_DIRS)) :
        ScanBody(found_files)

\* Project.save_to_file
save_to_file ==
    /\ edits < MaxEdits
    /\ edits' = edits + 1
    /\ snapshot' = ProjectToDict
    /\ exc' = "None"
    /\ ret' = Returned(TRUE, -1)
    /\ hist' = Did("save_to_file")
    /\ UNCHANGED <<analysis, thread, alone, disk, files, dependency_graph, file_count, entity_count,
                   project_type, issues>>

\* Project.load_from_file: a new Project restored with from_dict
load_from_file ==
    /\ snapshot.written
    /\ files' = RestoredFiles(snapshot)
    /\ dependency_graph' = RestoredGraph(snapshot)
    /\ file_count' = snapshot.file_count
    /\ entity_count' = snapshot.entity_count
    /\ project_type' = snapshot.project_type
    /\ issues' = snapshot.issues
    /\ exc' = "None"
    /\ ret' = Returned(TRUE, -1)
    /\ hist' = History("from_dict", {}, hist.op = "save_to_file",
                       IF hist.op = "save_to_file" THEN <<Indexed>> ELSE <<>>)
    /\ UNCHANGED <<analysis, thread, alone, disk, snapshot, edits>>

\* an add_issue that attaches the issue to every file of the project
MutAddIssueToEveryFile(file_path, line) ==
    LET issue == [file_path |-> file_path, line |-> line]
    IN  /\ edits < MaxEdits
        /\ edits' = edits + 1
        /\ issues' = Append(issues, issue)
        /\ files' = [k \in 1..Len(files) |-> [files[k] EXCEPT !.issues = Append(@, issue)]]
        /\ exc' = "None"
        /\ ret' = Returned(TRUE, -1)
        /\ hist' = Did("add_issue")
        /\ UNCHANGED <<analysis, thread, alone, disk, dependency_graph, file_count, entity_count,
                       project_type, snapshot>>

\* Project.add_issue(file_path, line, ...)
add_issue(file_path, line) ==
    LET issue == [file_path |-> file_path, line |-> line]
    IN  /\ edits < MaxEdits
        /\ edits' = edits + 1
        /\ issues' = Append(issues, issue)
        /\ files' = [k \in 1..Len(files) |->
                        IF files[k].relative_path = file_path
                        THEN [files[k] EXCEPT !.issues = Append(@, issue)]
                        ELSE files[k]]
        /\ exc' = "None"
        /\ ret' = Returned(TRUE, -1)
        /\ hist' = Did("add_issue")
        /\ UNCHANGED <<analysis, thread, alone, disk, dependency_graph, file_count, entity_count, project_type,
                       snapshot>>

\* CodeFile.save_content(new_lines) on the file at position k of the project
\* (the editor saving the file it shows): write_file, then hash and re-parse
SaveContent(k, new_lines) ==
    LET f == files[k]
        d == disk[f.file_path]
        written == [disk EXCEPT ![f.file_path] = DiskFile(new_lines, TRUE)]
    IN  /\ edits < MaxEdits
        /\ edits' = edits + 1
        /\ new_lines # f.content.lines
        /\ IF d.exists /\ ~d.readable
           THEN /\ ret' = Returned(FALSE, -1)
                /\ UNCHANGED <<analysis, thread, alone, disk, files>>
           ELSE /\ disk' = written
                /\ files' = [files EXCEPT ![k] = save_content(f, new_lines, written[f.file_path]).f]
                /\ ret' = Returned(TRUE, -1)
        /\ exc' = "None"
        /\ hist' = Did("save_content")
        /\ UNCHANGED <<analysis, thread, alone, dependency_graph, file_count, entity_count, project_type,
                       issues, snapshot>>

\* another program writes, removes or locks a file of the tree
EditTree(p, entry) ==
    /\ edits < MaxEdits
    /\ disk[p] # entry
    /\ disk' = [disk EXCEPT ![p] = entry]
    /\ edits' = edits + 1
    /\ hist' = Did("edit")
    /\ UNCHANGED <<analysis, thread, alone, files, dependency_graph, file_count, entity_count, project_type,
                   issues, snapshot, exc, ret>>

Next ==
    \/ scan_files
    \/ scan_files_body
    \/ save_to_file
    \/ load_from_file
    \/ \E p \in TreePaths, line \in {1} : add_issue(p, line)
    \/ \E k \in 1..Len(files), c \in TreeContents : SaveContent(k, c)
    \/ \E p \in TreePaths, entry \in DiskEntries : EditTree(p, entry)

Spec == Init /\ [][Next]_vars

----------------------------------------------------------------------------
(* One CodeFile and its extractor: state machine *)

\* every sequence of at most n elements of S
SeqsUpTo(S, n) == UNION {[1..k -> S] : k \in 0..n}

\* the files the extractors are run on, one per language, and the lines they
\* are written with
ExtractFiles ==
    {
      [path |-> <<"x", ".", "p", "y">>,
       lines |->
          { Decl("class", 0, <<"C">>), Decl("def", 0, <<"f">>), Decl("def", 4, <<"m">>),
            Decl("assign", 0, <<"x">>), Import("import", <<"a">>),
            BaseLine, [BaseLine EXCEPT !.indent = 4], Blank }],
      [path |-> <<"x", ".", "p", "h", "p">>,
       lines |->
          { Import("use", PhpWords.Illuminate \o <<"\\", "A">>),
            Braces(Decl("class", 0, <<"A">>), 1, 0),
            Braces(Decl("class", 0, <<"A">> \o PhpWords.Controller), 1, 0),
            Braces([Decl("class", 0, <<"B">>) EXCEPT !.parent = PhpWords.Model], 1, 0),
            Braces(Decl("method", 4, <<"m">>), 1, 1),
            Decl("function", 0, <<"f">>),
            Braces(BaseLine, 0, 1) }],
      [path |-> <<"x", ".", "j", "s">>,
       lines |->
          { Import("import", react_), Import("import", <<"o", "p", "e", "n", "a", "i">>),
            Import("import", <<"x">>), Braces(Decl("class", 0, <<"A">>), 1, 0),
            Braces(Decl("function", 0, <<"f">>), 1, 0), Decl("const", 0, <<"x">>),
            Decl("component", 0, <<"K">>), Braces(Decl("method", 2, <<"m">>), 1, 1),
            Braces(BaseLine, 0, 1) }],
      [path |-> <<"x", ".", "d", "a", "r", "t">>,
       lines |->
          { Import("import", DartWords.package \o <<":">> \o DartWords.flutter \o <<"/", "a">>),
            Braces([Decl("class", 0, <<"X">>) EXCEPT !.parent = DartWords.StatefulWidget], 1, 0),
            Braces([Decl("class", 0, <<"_", "X">> \o DartWords.State) EXCEPT
                        !.parent = DartWords.State, !.text = <<"X">>], 1, 0),
            Braces(Decl("method", 2, <<"m">>), 1, 1), Decl("variable", 2, <<"x">>),
            Braces(BaseLine, 0, 1) }],
      [path |-> <<"x", ".", "h", "t", "m", "l">>,
       lines |->
          { Decl("title", 0, <<"a">>), Import("script", <<"a", "/", "b", ".", "j", "s">>),
            Decl("form", 0, <<>>), Decl("form", 0, <<"f">>), Decl("formend", 0, <<>>),
            Decl("div", 0, <<"x">>) }],
      [path |-> <<"x", ".", "c", "s", "s">>,
       lines |->
          { CssLine(<<"s", "{">>), CssLine(<<"}">>), CssLine(<<"s", "{", "}">>),
            CssLine(<<"s">>), CssLine(<<"{">>) }]
    }

\* an empty tree
NoTree == [p \in TreePaths |-> NoFile]

\* a CodeFile whose content was loaded, of any language and of at most MaxLines lines
InitExtract ==
    /\ disk = NoTree
    /\ NewProject
    /\ NoCall
    /\ \E file \in ExtractFiles : \E c \in SeqsUpTo(file.lines, MaxLines) :
           cf = load_content(CodeFile(file.path), DiskFile(c, TRUE), DiskFile(c, TRUE)).f
    /\ arena = <<>>

\* CodeFile.parse_entities on the loaded content
ExtractParse ==
    /\ cf.content.loaded
    /\ edits < MaxEdits
    /\ edits' = edits + 1
    /\ LET r == ParseLoaded(cf)
       IN  /\ cf' = r.f
           /\ ret' = Returned(r.ret, -1)
           /\ hist' = [History("parse", {}, hist.op = "parse", <<>>)
                          EXCEPT !.raised = r.raised]
    /\ UNCHANGED <<disk, project_vars, analysis, thread, exc, pc, arena>>

\* CodeFile.to_dict, then CodeFile.from_dict of what it wrote
ExtractRoundTrip ==
    /\ hist.op = "parse"
    /\ cf' = FileFromDict(FileToDict(cf))
    /\ ret' = Returned(TRUE, -1)
    /\ hist' = Did("from_dict")
    /\ UNCHANGED <<disk, project_vars, analysis, thread, exc, pc, arena, edits>>

NextExtract ==
    \/ ExtractParse
    \/ ExtractRoundTrip

SpecExtract == InitExtract /\ [][NextExtract]_vars

----------------------------------------------------------------------------
(* The scopes of a Python file: state machine *)

\* a loaded Python file of at most MaxPyLines lines: a class, methods, a
\* statement inside the class, and a statement and a def at the top level
InitPyScopes ==
    /\ disk = NoTree
    /\ NewProject
    /\ NoCall
    /\ \E c \in SeqsUpTo({ Decl("class", 0, <<"C">>), Decl("def", 4, <<"m">>),
                           [BaseLine EXCEPT !.indent = 4], Decl("assign", 0, <<"x">>),
                           Decl("def", 0, <<"f">>) }, MaxPyLines) :
           cf = load_content(CodeFile(<<"x", ".", "p", "y">>),
                             DiskFile(c, TRUE), DiskFile(c, TRUE)).f
    /\ arena = <<>>

\* CodeFile.parse_entities on such a file
SpecPyScopes == InitPyScopes /\ [][ExtractParse]_vars

----------------------------------------------------------------------------
(* One CodeFile and the tree: state machine *)

\* a new CodeFile for a path of some tree
InitFile ==
    /\ disk \in [TreePaths -> DiskEntries]
    /\ NewProject
    /\ NoCall
    /\ cf \in {CodeFile(p) : p \in TreePaths}
    /\ arena = <<>>

\* CodeFile.load_content, line 206: read_file; the call returns False when
\* the file cannot be read
LoadRead ==
    /\ pc = Idle
    /\ edits < MaxEdits
    /\ edits' = edits + 1
    /\ IF read_file(disk[cf.file_path]).loaded
       THEN /\ pc' = [at |-> "load_hash", seen |-> disk[cf.file_path]]
            /\ UNCHANGED <<cf, ret, hist>>
       ELSE /\ cf' = load_content(cf, disk[cf.file_path], disk[cf.file_path]).f
            /\ ret' = Returned(FALSE, -1)
            /\ hist' = Did("load_content")
            /\ pc' = Idle
    /\ exc' = "None"
    /\ UNCHANGED <<disk, project_vars, analysis, thread, arena>>

\* CodeFile.load_content, lines 207-213: calculate_file_hash opens the file again
LoadHash ==
    /\ pc.at = "load_hash"
    /\ cf' = load_content(cf, pc.seen, disk[cf.file_path]).f
    /\ ret' = Returned(TRUE, -1)
    /\ hist' = Did("load_content")
    /\ pc' = Idle
    /\ exc' = "None"
    /\ UNCHANGED <<disk, project_vars, analysis, thread, arena, edits>>

\* CodeFile.parse_entities (it loads the content when there is none)
FileParse ==
    /\ pc = Idle
    /\ edits < MaxEdits
    /\ edits' = edits + 1
    /\ LET r == parse_entities(cf, disk[cf.file_path], disk[cf.file_path])
       IN  /\ cf' = r.f
           /\ ret' = Returned(r.ret, -1)
           /\ hist' = [History("parse", {}, cf.entities # <<>> \/ cf.imports # <<>>, <<>>)
                          EXCEPT !.raised = r.raised]
    /\ exc' = "None"
    /\ UNCHANGED <<disk, project_vars, analysis, thread, pc, arena>>

\* CodeFile.save_content, line 218: write_file; the call returns False when
\* the file cannot be written
SaveWrite(new_lines) ==
    /\ pc = Idle
    /\ edits < MaxEdits
    /\ edits' = edits + 1
    /\ IF disk[cf.file_path].exists /\ ~disk[cf.file_path].readable
       THEN /\ ret' = Returned(FALSE, -1)
            /\ hist' = Did("save_content")
            /\ UNCHANGED <<disk, pc>>
       ELSE /\ disk' = [disk EXCEPT ![cf.file_path] = DiskFile(new_lines, TRUE)]
            /\ pc' = [at |-> "save_hash", seen |-> DiskFile(new_lines, TRUE)]
            /\ UNCHANGED <<ret, hist>>
    /\ exc' = "None"
    /\ UNCHANGED <<cf, project_vars, analysis, thread, arena>>

\* CodeFile.save_content, lines 219-227: calculate_file_hash opens the file
\* again, then the new content is parsed
SaveHash ==
    /\ pc.at = "save_hash"
    /\ LET s == save_content(cf, pc.seen.lines, disk[cf.file_path])
       IN  /\ cf' = s.f
           /\ exc' = s.exc
    /\ ret' = IF exc' = "None" THEN Returned(TRUE, -1) ELSE Returned(FALSE, -1)
    /\ hist' = [Did("save_content") EXCEPT
                   !.twice = cf.entities # <<>> \/ cf.imports # <<>>]
    /\ pc' = Idle
    /\ UNCHANGED <<disk, project_vars, analysis, thread, arena, edits>>

\* another program writes, removes or locks a file of the tree, between two
\* calls or in the middle of one
FileEditTree(p, entry) ==
    /\ edits < MaxEdits
    /\ disk[p] # entry
    /\ disk' = [disk EXCEPT ![p] = entry]
    /\ edits' = edits + 1
    /\ UNCHANGED <<cf, project_vars, analysis, thread, exc, ret, hist, pc, arena>>

NextFile ==
    \/ LoadRead
    \/ LoadHash
    \/ FileParse
    \/ \E c \in TreeContents : SaveWrite(c)
    \/ SaveHash
    \/ \E p \in TreePaths, entry \in DiskEntries : FileEditTree(p, entry)

SpecFile == InitFile /\ [][NextFile]_vars

----------------------------------------------------------------------------
(* CodeEntity objects: state machine *)

\* three entities just constructed
NewEntities ==
    << CodeEntity(<<"A">>, "class", 1, NoLine), CodeEntity(<<"B">>, "class", 2, NoLine),
       CodeEntity(<<"m">>, "method", 3, NoLine) >>

\* contents whose extraction gives a class with a child, per language
EntityFiles ==
    { [path |-> <<"x", ".", "p", "y">>, lines |-> <<Decl("class", 0, <<"C">>), Decl("def", 4, <<"m">>)>>],
      [path |-> <<"x", ".", "p", "h", "p">>, lines |-> <<Braces(Decl("class", 0, <<"A">>), 1, 0),
                                   Braces(Decl("method", 4, <<"m">>), 1, 1),
                                   Braces(BaseLine, 0, 1)>>],
      [path |-> <<"x", ".", "d", "a", "r", "t">>, lines |-> <<Braces(Decl("class", 0, <<"X">>), 1, 0),
                                    Decl("variable", 2, <<"x">>),
                                    Braces(BaseLine, 0, 1)>>] }

\* the entities of a file after an extractor pass
Extracted(file) ==
    ParseLoaded([CodeFile(file.path) EXCEPT !.content = Content(file.lines)]).f.ents

\* to_dict of entity e ends: no entity below e is its own descendant
RECURSIVE Finite(_, _, _)
Finite(ents, e, fuel) ==
    /\ fuel > 0
    /\ \A k \in 1..Len(ents[e].children) : Finite(ents, ents[e].children[k], fuel - 1)

\* entities just constructed, or the entities an extractor pass left
InitEntity ==
    /\ disk = NoTree
    /\ NewProject
    /\ NoCall
    /\ cf = CodeFile(a_py)
    /\ arena \in {NewEntities} \cup {Extracted(file) : file \in EntityFiles}

\* arena[p].add_child(arena[c])
EntityAddChild(p, c) ==
    /\ edits < MaxEdits
    /\ edits' = edits + 1
    /\ arena' = add_child(arena, p, c)
    /\ hist' = Did("add_child")
    /\ UNCHANGED <<disk, project_vars, analysis, thread, exc, ret, cf, pc>>

\* arena[p].remove_child(arena[c])
EntityRemoveChild(p, c) ==
    /\ edits < MaxEdits
    /\ edits' = edits + 1
    /\ arena' = remove_child(arena, p, c)
    /\ ret' = Returned(c \in Range(arena[p].children), -1)
    /\ hist' = Did("remove_child")
    /\ UNCHANGED <<disk, project_vars, analysis, thread, exc, cf, pc>>

\* CodeEntity.from_dict(arena[e].to_dict()): new entities beside the old ones
EntityRestore(e) ==
    /\ edits < MaxEdits
    /\ edits' = edits + 1
    /\ Finite(arena, e, Len(arena))
    /\ arena' = EntityFromDict(arena, EntityToDict(arena, e))
    /\ hist' = Did("from_dict")
    /\ UNCHANGED <<disk, project_vars, analysis, thread, exc, ret, cf, pc>>

NextEntity ==
    \/ \E p \in 1..Len(arena), c \in 1..Len(arena) : EntityAddChild(p, c)
    \/ \E p \in 1..Len(arena), c \in 1..Len(arena) : EntityRemoveChild(p, c)
    \/ \E e \in 1..Len(arena) : EntityRestore(e)

SpecEntity == InitEntity /\ [][NextEntity]_vars

----------------------------------------------------------------------------
(* Dependency analysis: state machine *)

\* lines 1311-1318: the tokens that no key of files holds in its base name,
\* each with the number of files that list it
ExternalDeps(fs) ==
    LET listed == UNION {fs[k].dependencies : k \in 1..Len(fs)}
        external == {dep \in listed :
                        ~\E k \in 1..Len(fs) : IsSubstr(dep, basename(fs[k].relative_path))}
    IN  [dep \in external |-> Cardinality({k \in 1..Len(fs) : dep \in fs[k].dependencies})]

\* the sequences of distinct nodes that follow edges of g and close
ClosedPaths(g) ==
    {c \in UNION {Orderings(S) : S \in (SUBSET g.nodes) \ {{}}} :
        \A i \in 1..Len(c) : <<c[i], c[(i % Len(c)) + 1]>> \in g.edges}

\* the rotations of a cycle
Rotations(c) ==
    {[i \in 1..Len(c) |-> c[((i + k - 1) % Len(c)) + 1]] : k \in 0..(Len(c) - 1)}

\* a cycle enumeration that lists a cycle once per node it starts at
MutSimpleCyclesEveryRotation(g) ==
    CHOOSE q \in Orderings(ClosedPaths(g)) : TRUE

\* line 1322: list(nx.simple_cycles(graph)): every elementary cycle of the
\* graph, self-loops included, listed once, in the rotation and the order the
\* library finds them
simple_cycles(g) ==
    LET found == {CHOOSE c \in class : TRUE : class \in {Rotations(c) : c \in ClosedPaths(g)}}
    IN  CHOOSE q \in Orderings(found) : TRUE

\* the files of the trees whose dependencies are analysed, and the one-line
\* contents they take
DepFiles ==
    { [paths |-> {<<"a", ".", "p", "y">>, <<"b", ".", "p", "y">>, <<"c", ".", "p", "y">>},
       contents |-> {<<Import("import", t)>> : t \in {<<"a">>, <<"b">>, <<"c">>, <<"p", "y">>}}],
      [paths |-> {<<"a", ".", "j", "s">>, <<"b", ".", "j", "s">>},
       contents |-> {<<Import("import", t)>> : t \in {<<".", "/", "a">>, <<".", "/", "b">>}}] }

\* a new Project over a tree of Python files or of JavaScript files
InitDeps ==
    /\ \E group \in DepFiles :
           disk \in [group.paths -> {NoFile} \cup {DiskFile(c, TRUE) : c \in group.contents}]
    /\ NewProject
    /\ NoCall
    /\ cf = CodeFile(a_py)
    /\ arena = <<>>

\* Project.analyze_dependencies: the external dependencies and the cycles
\* (centrality and isolated files are not modelled)
analyze_dependencies ==
    LET graph == IF dependency_graph.nodes = {}
                 THEN build_dependency_graph(files) ELSE dependency_graph
    IN  /\ dependency_graph' = graph
        /\ analysis' = [op |-> "analyze_dependencies",
                        external_dependencies |-> ExternalDeps(files),
                        circular_dependencies |-> simple_cycles(graph)]
        /\ exc' = "None"
        /\ ret' = Returned(TRUE, -1)
        /\ hist' = Did("analyze_dependencies")
        /\ UNCHANGED <<thread, alone, disk, files, file_count, entity_count, project_type, issues,
                       snapshot, edits>>

NextDeps ==
    \/ scan_files_body
    \/ analyze_dependencies

SpecDeps == InitDeps /\ [][NextDeps]_vars

----------------------------------------------------------------------------
(* Similar files: state machine *)

\* a line that matches no pattern of the extractors, given by its characters
\* (letters, " " and "#"; no trailing blank)
Text(chars) ==
    [BaseLine EXCEPT !.text = chars,
                     !.indent = SetMin({i \in 1..Len(chars) : chars[i] # " "}
                                       \cup {Len(chars) + 1}) - 1]

\* lines 1381-1385, for a text of such lines: each line is cut at its first
\* "#" and stripped, and the lines of which something is left are collected
LineSet(content) ==
    {Strip(SplitFirst(line.text, "#")) : line \in Range(content.lines)} \ {<<>>}

\* a score that divides by the lines of the first text alone
MutSimilarityOverFirst(content1, content2) ==
    IF LineSet(content1) = {} \/ LineSet(content2) = {}
    THEN [num |-> 0, den |-> 1]
    ELSE [num |-> Cardinality(LineSet(content1) \cap LineSet(content2)),
          den |-> Cardinality(LineSet(content1))]

\* Project._calculate_similarity: the Jaccard index of the two line sets, as
\* the fraction num/den; 0.0 is 0/1. `not text` holds for None and for "".
calculate_similarity(content1, content2) ==
    IF \/ ~content1.loaded \/ content1.lines = <<>>
       \/ ~content2.loaded \/ content2.lines = <<>>
       \/ LineSet(content1) = {} \/ LineSet(content2) = {}
    THEN [num |-> 0, den |-> 1]
    ELSE [num |-> Cardinality(LineSet(content1) \cap LineSet(content2)),
          den |-> Cardinality(LineSet(content1) \cup LineSet(content2))]

\* a comparison that leaves out the pairs that score the threshold itself
MutReachesAbove(similarity, threshold) ==
    similarity.num * threshold.den > threshold.num * similarity.den

\* line 1359: similarity >= threshold, on fractions
Reaches(similarity, threshold) ==
    similarity.num * threshold.den >= threshold.num * similarity.den

\* line 1363: list.sort(key = the similarity, reverse = True), which is stable
SortBySimilarity(pairs) ==
    LET order == CHOOSE q \in Orderings(1..Len(pairs)) :
                     \A a, b \in 1..Len(pairs) :
                         a < b => /\ Reaches(pairs[q[a]].similarity, pairs[q[b]].similarity)
                                  /\ Reaches(pairs[q[b]].similarity, pairs[q[a]].similarity)
                                         => q[a] < q[b]
    IN  [i \in 1..Len(pairs) |-> pairs[order[i]]]

\* a new Project over a tree of two files of text lines, of one language or of
\* two, each file readable or locked; the second file holds one line at most
InitSimilar ==
    /\ \E second \in {<<"b", ".", "p", "y">>, <<"b", ".", "j", "s">>} :
           LET texts == {Text(<<"x">>), Text(<<"y">>), Text(<<" ", "x">>), Text(<<"#", "x">>)}
               entries(n) == {DiskFile(<<>>, FALSE)} \cup
                             {DiskFile(c, TRUE) : c \in SeqsUpTo(texts, n)}
           IN  \E first_entry \in entries(MaxLines - 1), second_entry \in entries(1) :
                   disk = [p \in {a_py, second} |->
                              IF p = a_py THEN first_entry ELSE second_entry]
    /\ NewProject
    /\ NoCall
    /\ cf = CodeFile(a_py)
    /\ arena = <<>>

\* Project.find_similar_files(threshold): every file without content is loaded,
\* the pairs i < j of one language are scored, and those that reach the
\* threshold are returned, the most similar first
find_similar_files(threshold) ==
    LET loaded == [k \in 1..Len(files) |->
                      IF ~files[k].content.loaded \/ files[k].content.lines = <<>>
                      THEN load_content(files[k], disk[files[k].file_path],
                                        disk[files[k].file_path]).f
                      ELSE files[k]]
        n == Len(files)
        all == [p \in 1..(n * n) |->
                   [i |-> ((p - 1) \div n) + 1, j |-> ((p - 1) % n) + 1]]
        scored(x) == [path1 |-> loaded[x.i].relative_path,
                      path2 |-> loaded[x.j].relative_path,
                      similarity |-> calculate_similarity(loaded[x.i].content,
                                                          loaded[x.j].content)]
        similar(x) == /\ x.i < x.j
                      /\ loaded[x.i].language = loaded[x.j].language
                      /\ Reaches(scored(x).similarity, threshold)
        kept == SelectSeq(all, similar)
    IN  /\ files' = loaded
        /\ analysis' = [op |-> "find_similar_files", threshold |-> threshold,
                        similar_files |->
                            SortBySimilarity([k \in 1..Len(kept) |-> scored(kept[k])])]
        /\ exc' = "None"
        /\ ret' = Returned(TRUE, -1)
        /\ hist' = Did("find_similar_files")
        /\ UNCHANGED <<thread, alone, disk, dependency_graph, file_count, entity_count, project_type,
                       issues, snapshot, edits>>

SpecSimilar ==
    InitSimilar /\ [][\/ scan_files_body
                      \/ \E threshold \in {[num |-> 1, den |-> 2], [num |-> 4, den |-> 5],
                                           [num |-> 1, den |-> 1]} :
                             find_similar_files(threshold)]_vars

----------------------------------------------------------------------------
(* Complexity of one CodeFile: state machine *)

\* len(re.findall(r'\bw\b', line)) for a word w: the places where w stands
\* with no word character before or after it (of the characters of the model
\* " ", "?", "|" and "&" are the ones \w does not match)
CountWord(chars, w) ==
    LET word(i) == i \in 1..Len(chars) /\ chars[i] \notin {" ", "?", "|", "&"}
    IN  Cardinality({i \in 1..(Len(chars) - Len(w) + 1) :
                        /\ SubSeq(chars, i, i + Len(w) - 1) = w
                        /\ ~word(i - 1)
                        /\ ~word(i + Len(w))})

\* len(re.findall(r'\belse\s+if\b', line)): `else`, one blank or more, `if`
CountElseIf(chars) ==
    LET word(i) == i \in 1..Len(chars) /\ chars[i] \notin {" ", "?", "|", "&"}
    IN  Cardinality({i \in 1..Len(chars) :
                        /\ ~word(i - 1)
                        /\ i + 3 <= Len(chars)
                        /\ SubSeq(chars, i, i + 3) = <<"e", "l", "s", "e">>
                        /\ \E k \in 1..Len(chars) :
                               /\ i + 5 + k <= Len(chars)
                               /\ \A b \in (i + 4)..(i + 3 + k) : chars[b] = " "
                               /\ SubSeq(chars, i + 4 + k, i + 5 + k) = <<"i", "f">>
                               /\ ~word(i + 6 + k)})

\* len(re.findall(literal, line)) from position i on: the matches are taken
\* from the left and do not overlap
RECURSIVE CountLiteral(_, _, _)
CountLiteral(chars, literal, i) ==
    IF i + Len(literal) - 1 > Len(chars) THEN 0
    ELSE IF SubSeq(chars, i, i + Len(literal) - 1) = literal
    THEN 1 + CountLiteral(chars, literal, i + Len(literal))
    ELSE CountLiteral(chars, literal, i + 1)

\* lines 1083-1092: one, and one more for every match of a pattern in a line
cyclomatic_complexity(lines) ==
    1 + SumSeq([k \in 1..Len(lines) |->
            CountWord(lines[k].text, <<"i", "f">>)
          + CountElseIf(lines[k].text)
          + CountWord(lines[k].text, <<"f", "o", "r">>)
          + CountWord(lines[k].text, <<"w", "h", "i", "l", "e">>)
          + CountWord(lines[k].text, <<"c", "a", "s", "e">>)
          + CountWord(lines[k].text, <<"c", "a", "t", "c", "h">>)
          + CountLiteral(lines[k].text, <<"?">>, 1)
          + CountLiteral(lines[k].text, <<"|", "|">>, 1)
          + CountLiteral(lines[k].text, <<"&", "&">>, 1)])

\* a new CodeFile for a path at which there is no file, a locked file or a file
\* of up to MaxLines lines of text
InitComplexity ==
    /\ disk \in [{a_py} ->
                    {NoFile, DiskFile(<<>>, FALSE)} \cup
                    {DiskFile(c, TRUE) :
                        c \in SeqsUpTo({Text(<<"x">>), Text(<<"i", "f", " ", "x">>),
                                        Text(<<"e", "l", "i", "f">>),
                                        Text(<<"e", "l", "s", "e", " ", " ", "i", "f">>),
                                        Text(<<"x", "?">>), Text(<<"|", "|", "|">>)},
                                       MaxLines)}]
    /\ NewProject
    /\ NoCall
    /\ cf = CodeFile(a_py)
    /\ arena = <<>>

\* CodeFile.analyze_complexity: the content is loaded when there is none; the
\* metrics are those of the constructor when there is still none (None or "");
\* else the cyclomatic complexity and the deepest nesting of braces are
\* computed (the score, a rounded float, is left out)
analyze_complexity ==
    LET f == IF ~cf.content.loaded \/ cf.content.lines = <<>>
             THEN load_content(cf, disk[cf.file_path], disk[cf.file_path]).f
             ELSE cf
        lines == f.content.lines
        depth(k) == SumSeq([i \in 1..k |-> lines[i].opens])
                        - SumSeq([i \in 1..(k - 1) |-> lines[i].closes])
    IN  /\ cf' = f
        /\ analysis' =
               [op |-> "analyze_complexity",
                line_count |-> f.line_count,
                entity_count |-> Len(f.entities),
                cyclomatic_complexity |->
                    IF ~f.content.loaded \/ lines = <<>> THEN 0
                    ELSE cyclomatic_complexity(lines),
                nesting_depth |->
                    IF ~f.content.loaded \/ lines = <<>> THEN 0
                    ELSE SetMax({0} \cup {depth(k) : k \in 1..Len(lines)})]
        /\ exc' = "None"
        /\ ret' = Returned(TRUE, -1)
        /\ hist' = Did("analyze_complexity")
        /\ UNCHANGED <<disk, project_vars, pc, arena, edits, thread>>

SpecComplexity == InitComplexity /\ [][analyze_complexity]_vars

----------------------------------------------------------------------------
(* A tree with excluded directories: state machine *)

\* a tree whose paths lie at its top, under node_modules, and under a build
\* directory one level down
InitExcluded ==
    /\ disk \in [{a_py,
                  <<"n", "o", "d", "e", "_", "m", "o", "d", "u", "l", "e", "s", "/", "x", ".", "j", "s">>,
                  <<"s", "/", "b", "u", "i", "l", "d", "/", "b", ".", "p", "y">>}
                     -> DiskEntries]
    /\ NewProject
    /\ NoCall
    /\ cf = CodeFile(a_py)
    /\ arena = <<>>

\* scans, snapshots and edits of that tree
SpecExcluded ==
    InitExcluded /\ [][\/ scan_files
                      \/ scan_files_body
                      \/ save_to_file
                      \/ load_from_file
                      \/ \E p \in DOMAIN disk, entry \in DiskEntries : EditTree(p, entry)]_vars

----------------------------------------------------------------------------
(* The analysis pass of src/analyzer.py: state machine *)

\* AnalysisThread.__init__: the worker of a pass over files_to_analyze, given
\* for each file as "unreadable" (read_file returns None) or as the severity
\* of the issue the analyzers find in it; the worker registers itself with
\* APIThreadManager. `at` is where run() stands, `waited` whether
\* analyze_project is blocked in wait() on this worker.
AnalysisThread(files_to_analyze) ==
    [at |-> "top", files_to_analyze |-> files_to_analyze, i |-> 0, abort_flag |-> FALSE,
     issues |-> <<>>, analyzed_files |-> 0, progress |-> 0, completed |-> <<>>,
     registered |-> TRUE, waited |-> FALSE]

\* QThread.isRunning: run() was started and has not returned
isRunning == thread.at \in {"top", "file", "sort"}

\* a loop that never looks at abort_flag
MutRunTopIgnoresAbort ==
    /\ thread.at = "top"
    /\ thread' = [thread EXCEPT !.at = IF thread.i >= Len(thread.files_to_analyze)
                                       THEN "sort" ELSE "file"]
    /\ UNCHANGED <<disk, project_vars, alone, analysis, exc, ret, hist, edits>>

\* run(), lines 496-499: the head of the loop; the pass leaves the loop after
\* the last file or when abort_flag is set, and begins the next file otherwise
RunTop ==
    /\ thread.at = "top"
    /\ thread' = [thread EXCEPT !.at = IF thread.i >= Len(thread.files_to_analyze)
                                          \/ thread.abort_flag
                                       THEN "sort" ELSE "file"]
    /\ UNCHANGED <<disk, project_vars, alone, analysis, exc, ret, hist, edits>>

\* run(), lines 501-530: one file; a file that cannot be read is skipped, any
\* other is analysed, its issues and the statistics are added to the results
\* and the progress is emitted
RunFile ==
    /\ thread.at = "file"
    /\ thread' =
           IF thread.files_to_analyze[thread.i + 1] = "unreadable"
           THEN [thread EXCEPT !.at = "top", !.i = @ + 1]
           ELSE [thread EXCEPT !.at = "top", !.i = @ + 1,
                               !.issues = Append(@, [file |-> thread.i,
                                                     severity |-> thread.files_to_analyze[thread.i + 1]]),
                               !.analyzed_files = @ + 1,
                               !.progress = thread.i + 1]
    /\ UNCHANGED <<disk, project_vars, alone, analysis, exc, ret, hist, edits>>

\* run(), lines 533-545: the issues are sorted by severity (a stable sort),
\* analysis_completed is emitted with the results, and the worker unregisters
RunEnd ==
    /\ thread.at = "sort"
    /\ LET high == {k \in 1..Len(thread.issues) : thread.issues[k].severity = "high"}
           rank(k) == IF k \in high
                      THEN Cardinality({h \in high : h <= k})
                      ELSE Cardinality(high) + Cardinality({h \in 1..k : h \notin high})
           sorted == [r \in 1..Len(thread.issues) |->
                         thread.issues[CHOOSE k \in 1..Len(thread.issues) : rank(k) = r]]
       IN  thread' = [thread EXCEPT !.at = "done", !.issues = sorted,
                                    !.completed = <<[issues |-> sorted,
                                                     analyzed_files |-> thread.analyzed_files]>>,
                                    !.registered = FALSE]
    /\ UNCHANGED <<disk, project_vars, alone, analysis, exc, ret, hist, edits>>

\* AnalysisThread.run, a step at a time
run == RunTop \/ RunFile \/ RunEnd

\* AnalysisManager.abort_analysis: AnalysisThread.abort on a running worker.
\* hist keeps where the worker stood when the first request arrived; a later
\* request changes nothing.
abort ==
    /\ isRunning /\ ~thread.abort_flag
    /\ thread' = [thread EXCEPT !.abort_flag = TRUE]
    /\ hist' = History("abort", {}, FALSE, <<[i |-> thread.i, at |-> thread.at]>>)
    /\ UNCHANGED <<disk, project_vars, alone, analysis, exc, ret, edits>>

\* AnalysisManager.analyze_project, lines 576-578 and, with no worker
\* running, 580-600: a running worker is asked to stop and waited for; else a
\* new worker is started on the files
analyze_project(files_to_analyze) ==
    /\ edits < MaxEdits
    /\ edits' = edits + 1
    /\ IF thread.at = "none" THEN TRUE ELSE ~thread.waited
    /\ IF isRunning
       THEN /\ thread' = [thread EXCEPT !.abort_flag = TRUE, !.waited = TRUE]
            /\ hist' = IF thread.abort_flag THEN hist
                       ELSE History("abort", {}, FALSE, <<[i |-> thread.i, at |-> thread.at]>>)
       ELSE /\ thread' = AnalysisThread(files_to_analyze)
            /\ hist' = Did("analyze_project")
    /\ UNCHANGED <<disk, project_vars, alone, analysis, exc, ret>>

\* AnalysisManager.analyze_project, lines 580-600 after wait() has returned:
\* the new worker is started
analyze_project_after_wait(files_to_analyze) ==
    /\ thread.at = "done" /\ thread.waited
    /\ thread' = AnalysisThread(files_to_analyze)
    /\ hist' = Did("analyze_project")
    /\ UNCHANGED <<disk, project_vars, alone, analysis, exc, ret, edits>>

\* a new AnalysisManager
InitThread ==
    /\ disk = NoTree
    /\ NewProject
    /\ NoCall
    /\ cf = CodeFile(a_py)
    /\ arena = <<>>

\* the manager and its worker; a started worker goes on running
SpecThread ==
    /\ InitThread
    /\ [][\/ run
          \/ abort
          \/ \E fs \in SeqsUpTo({"unreadable", "high", "low"}, MaxFiles) :
                 analyze_project(fs) \/ analyze_project_after_wait(fs)]_vars
    /\ WF_vars(run)

----------------------------------------------------------------------------
(* Claims about the project *)

\* B's base filename with its extension stripped
Stem(path) == SplitFirst(basename(path), ".")

\* C1: in every state reached through scan, snapshot restore, add_issue and
\* save_content the nodes of the dependency graph are exactly keys(files) and
\* both endpoints of every edge are keys of files.
C1_GraphNodesAreFiles ==
    /\ dependency_graph.nodes = Keys(files)
    /\ \A e \in dependency_graph.edges : e[1] \in Keys(files) /\ e[2] \in Keys(files)

\* a project restored from a snapshot, with an edge and a file that no edge touches
C1_Witness ==
    /\ hist.op = "from_dict"
    /\ dependency_graph.edges # {}
    /\ \E p \in Keys(files) : \A e \in dependency_graph.edges : e[1] # p /\ e[2] # p

\* C2: after a scan keys(files) is exactly the set of paths that scan matched.
C2_FilesAreMatchedPaths ==
    hist.op = "scan_body" => Keys(files) = hist.matched

\* C7: scan() completes and returns a file count whatever happens to single
\* files; no exception leaves it.
C7_ScanReturns ==
    hist.op = "scan_files" => exc = "None" /\ ret.ok

\* C9: a scan that directly follows a scan of the same tree leaves keys(files),
\* every file's entities, imports and dependencies, file_count, entity_count
\* and the edges of the graph as the first scan left them.
C9_RescanChangesNothing ==
    (hist.op = "scan_body" /\ hist.twice) => hist.pre = <<Observed>>

\* a second scan in a row of a tree with two files, entities and an edge
C9_Witness ==
    /\ hist.op = "scan_body" /\ hist.twice
    /\ Len(files) = 2 /\ entity_count > 0 /\ dependency_graph.edges # {}

\* C10 as claimed: right after the graph is built, every edge A -> B has a
\* dependency token of A of which B's stem is a substring.
C10_StemInToken ==
    hist.op = "scan_body" =>
        \A e \in dependency_graph.edges :
            \E d \in Get(files, e[1]).dependencies : IsSubstr(Stem(e[2]), d)

\* C10 as amended: right after the graph is built, every edge A -> B has a
\* dependency token of A that is a substring of B's stem.
C10_TokenInStem ==
    hist.op = "scan_body" =>
        \A e \in dependency_graph.edges :
            \E d \in Get(files, e[1]).dependencies : IsSubstr(d, Stem(e[2]))

\* a graph just built with an edge to a file whose stem is longer than the token
C10_Witness ==
    /\ hist.op = "scan_body"
    /\ \E e \in dependency_graph.edges :
           \E d \in Get(files, e[1]).dependencies : IsSubstr(d, Stem(e[2])) /\ d # Stem(e[2])

\* C15: a project loaded from the snapshot that was just saved has the
\* file_count, the entity_count and the edges of the project that was saved,
\* and every file's entity trees are the same structures (names, kinds, line
\* ranges, child order, parent links).
C15_LoadOfSaveIsSame ==
    (hist.op = "from_dict" /\ hist.twice) => hist.pre = <<Indexed>>

\* a scanned project with an edge and a class that has a method was saved and
\* loaded
C15_Witness ==
    /\ hist.op = "from_dict" /\ hist.twice
    /\ file_count > 0
    /\ dependency_graph.edges # {}
    /\ \E k \in 1..Len(files) : \E t \in Range(FileTrees(files[k])) :
           \E c \in Range(t.children) : c.parent # <<>>

\* C20: a call of add_issue appends one issue to the issues of the project
\* and the same issue to the issues of the file of its path, when the project
\* holds that file, and changes no other file's issues, no file's entities,
\* imports or dependencies, and not the dependency graph.
C20_AddIssueOnlyAppends ==
    [][(hist'.op = "add_issue" /\ edits' # edits) =>
          /\ Len(issues') = Len(issues) + 1
          /\ SubSeq(issues', 1, Len(issues)) = issues
          /\ Len(files') = Len(files)
          /\ \A k \in 1..Len(files) :
                 /\ files'[k].issues =
                        IF files[k].relative_path = issues'[Len(issues')].file_path
                        THEN Append(files[k].issues, issues'[Len(issues')])
                        ELSE files[k].issues
                 /\ files'[k].ents = files[k].ents
                 /\ files'[k].entities = files[k].entities
                 /\ files'[k].imports = files[k].imports
                 /\ files'[k].dependencies = files[k].dependencies
          /\ dependency_graph' = dependency_graph]_vars

\* an issue was attached to one of two files that have entities and an edge
C20_Witness ==
    /\ hist.op = "add_issue"
    /\ dependency_graph.edges # {}
    /\ \E k1, k2 \in 1..Len(files) :
           /\ files[k1].issues # <<>> /\ files[k1].entities # <<>>
           /\ files[k2].issues = <<>>

\* the edges that leave the file at position i of files
OutEdges(i) == {e \in dependency_graph.edges : e[1] = files[i].relative_path}

\* C24: in the graph a scan builds, every edge that leaves a file A goes to the
\* first file, in the order of files, that one of A's dependency tokens
\* matches; A has no more edges than tokens, and a file that a token matches
\* after the first has no edge from A unless it is the first match of another
\* token of A.
C24_FirstMatchWins ==
    hist.op = "scan_body" =>
        \A i \in 1..Len(files) :
            /\ Cardinality(OutEdges(i)) <= Cardinality(files[i].dependencies)
            /\ \A j \in 1..Len(files) :
                   <<files[i].relative_path, files[j].relative_path>> \in dependency_graph.edges
                   <=> \E d \in files[i].dependencies :
                           /\ Matches(d, files[j].relative_path)
                           /\ \A k \in 1..(j - 1) : ~Matches(d, files[k].relative_path)

\* a scan after which a file has a token that two files match and one edge
C24_Witness ==
    /\ hist.op = "scan_body"
    /\ \E i \in 1..Len(files) : \E d \in files[i].dependencies :
           /\ Cardinality({j \in 1..Len(files) : Matches(d, files[j].relative_path)}) = 2
           /\ Cardinality(OutEdges(i)) = 1

----------------------------------------------------------------------------
(* Claims about one CodeFile and its extractor *)

\* C5: every entity an extractor pass creates or from_dict restores has
\* start_line >= 1 and, when its end_line is set, end_line >= start_line.
C5_LinesInOrder ==
    \A k \in 1..Len(cf.ents) :
        /\ cf.ents[k].start_line >= 1
        /\ cf.ents[k].end_line # NoLine => cf.ents[k].end_line >= cf.ents[k].start_line

\* a file restored by from_dict with a class that spans several lines and has a
\* child
C5_Witness ==
    /\ hist.op = "from_dict"
    /\ \E k \in 1..Len(cf.ents) :
           /\ cf.ents[k].end_line > cf.ents[k].start_line
           /\ cf.ents[k].children # <<>>

\* the 1-based numbers of the class lines at which the PHP extractor raises
PhpRaisingLines(f) ==
    {i \in 1..Len(f.content.lines) :
        /\ f.content.lines[i].kind = "class"
        /\ PhpLaravelKind(f.content.lines[i]) = "TypeError"}

\* C8 as claimed: when the extractor raises during parse, parse returns true,
\* the error is appended to the file's errors and the entity list is empty.
C8_RaiseGivesTrueAndNoEntities ==
    (hist.op = "parse" /\ hist.raised) =>
        /\ ret.ok
        /\ Len(cf.errors) = 1
        /\ cf.entities = <<>>

\* C8 as amended: when the extractor raises during parse, parse returns false,
\* the error is appended to the file's errors and the entity list holds only
\* entities that start before a line at which the extractor raises.
C8_RaiseGivesFalseAndEarlierEntities ==
    (hist.op = "parse" /\ hist.raised) =>
        /\ ~ret.ok
        /\ Len(cf.errors) = 1
        /\ \E i \in PhpRaisingLines(cf) :
               \A k \in 1..Len(cf.ents) : cf.ents[k].start_line < i

\* a parse that raised after an entity was extracted
C8_Witness ==
    /\ hist.op = "parse" /\ hist.raised
    /\ cf.entities # <<>>

\* the lines are one top-level class and nothing but its methods: a class line
\* without indentation, method lines indented under it and, where the class
\* line opens a brace, the line that closes it
SingleClass(lines) ==
    /\ lines # <<>>
    /\ lines[1].kind = "class" /\ lines[1].indent = 0
    /\ \A i \in 2..Len(lines) :
           \/ lines[i].kind \in {"def", "method"} /\ lines[i].indent > 0
           \/ i = Len(lines) /\ lines[i] = Braces(BaseLine, 0, 1)
    /\ lines[1].opens = 1 <=> lines[Len(lines)] = Braces(BaseLine, 0, 1)

\* C16: a file that holds one top-level class with N methods and nothing else
\* is extracted to one root entity with N children, each child's parent being
\* that root.
C16_OneClassWithItsMethods ==
    (hist.op = "parse" /\ SingleClass(cf.content.lines)) =>
        /\ Len(cf.entities) = 1
        /\ LET root == cf.entities[1]
               N == Cardinality({i \in 1..Len(cf.content.lines) :
                                    cf.content.lines[i].kind \in {"def", "method"}})
           IN  /\ Len(cf.ents[root].children) = N
               /\ \A c \in Range(cf.ents[root].children) : cf.ents[c].parent = root

\* the number of the last line of the scope that opens at line s: the line
\* before the first later line that is not blank and is indented no deeper
\* than line s; NoLine when no such line follows
PyScopeEnd(lines, s) ==
    LET closing == {j \in (s + 1)..Len(lines) :
                       lines[j].kind # "blank" /\ lines[j].indent <= lines[s].indent}
    IN  IF closing = {} THEN NoLine ELSE SetMin(closing) - 1

\* C22: in a Python file every class, function and method ends at the line
\* before the first later line that is not blank and is indented no deeper
\* than its opening line, and an indented def that follows a top-level class
\* with only blank or indented lines between them is a child of that class.
C22_BlankLineKeepsScope ==
    (hist.op = "parse" /\ cf.language = "python") =>
        /\ \A k \in 1..Len(cf.ents) :
               cf.ents[k].type \in {"class", "function", "method"} =>
                   cf.ents[k].end_line = PyScopeEnd(cf.content.lines, cf.ents[k].start_line)
        /\ \A c, m \in 1..Len(cf.content.lines) :
               (/\ c < m
                /\ cf.content.lines[c].kind = "class" /\ cf.content.lines[c].indent = 0
                /\ cf.content.lines[m].kind = "def" /\ cf.content.lines[m].indent > 0
                /\ \A j \in (c + 1)..(m - 1) :
                       cf.content.lines[j].kind = "blank" \/ cf.content.lines[j].indent > 0)
               => \E k1, k2 \in 1..Len(cf.ents) :
                      /\ cf.ents[k1].start_line = c /\ cf.ents[k2].start_line = m
                      /\ cf.ents[k2].type = "method"
                      /\ k2 \in Range(cf.ents[k1].children)

\* C23: in a Python file every method child of a class C starts after C's
\* opening line and before C's closing line, the first later line indented no
\* deeper than C's: no line between the two is indented as little as C's, so
\* an indented def after a top-level statement or def that follows C is not
\* attached to C.
C23_MethodsLieInsideTheirClass ==
    (hist.op = "parse" /\ cf.language = "python") =>
        \A k1 \in 1..Len(cf.ents) : \A k2 \in Range(cf.ents[k1].children) :
            /\ cf.ents[k1].start_line < cf.ents[k2].start_line
            /\ \A j \in (cf.ents[k1].start_line + 1)..(cf.ents[k2].start_line - 1) :
                   cf.content.lines[j].indent
                       > cf.content.lines[cf.ents[k1].start_line].indent

\* some import of the file contains one of the tokens, whatever the case of
\* its letters
SomeImportContains(tokens) ==
    \E k \in 1..Len(cf.imports) : \E t \in tokens : IsSubstr(t, lower(cf.imports[k]))

\* C25: after the extraction of a JavaScript file the language tag is react
\* when some import contains "react", ai_javascript when some import contains
\* a token of an AI library, and the tag the file had when no import contains
\* either.
C25_LanguagePromotion ==
    (hist.op = "parse" /\ ~hist.twice /\ get_file_type(cf.file_path) = "javascript") =>
        /\ SomeImportContains({react_}) => cf.language = "react"
        /\ SomeImportContains(AiLibTokens) => cf.language = "ai_javascript"
        /\ (~SomeImportContains({react_}) /\ ~SomeImportContains(AiLibTokens))
               => cf.language = "javascript"

\* C25 as amended: after the extraction of a JavaScript file the language tag
\* is ai_javascript when some import contains a token of an AI library, react
\* when some import contains "react" and none contains a token of an AI
\* library, and the tag the file had when no import contains either.
C25_AiLibraryBeforeReact ==
    (hist.op = "parse" /\ ~hist.twice /\ get_file_type(cf.file_path) = "javascript") =>
        /\ SomeImportContains(AiLibTokens) => cf.language = "ai_javascript"
        /\ (SomeImportContains({react_}) /\ ~SomeImportContains(AiLibTokens))
               => cf.language = "react"
        /\ (~SomeImportContains({react_}) /\ ~SomeImportContains(AiLibTokens))
               => cf.language = "javascript"

\* a JavaScript file that imports react and an AI library was extracted
C25_Witness ==
    /\ hist.op = "parse" /\ ~hist.twice
    /\ get_file_type(cf.file_path) = "javascript"
    /\ SomeImportContains({react_}) /\ SomeImportContains(AiLibTokens)
    /\ cf.language = "ai_javascript"

\* the line declares a widget class (one that extends StatelessWidget or
\* StatefulWidget)
IsWidgetLine(line) ==
    line.kind = "class" /\ line.parent \in {DartWords.StatelessWidget, DartWords.StatefulWidget}

\* the line declares `class _XState extends State<X>` for the widget of line w
IsStateLineOf(line, w) ==
    /\ line.kind = "class" /\ line.parent = DartWords.State /\ line.text = w.name
    /\ line.name = <<"_">> \o w.name \o DartWords.State

\* the file imports Flutter
ImportsFlutter == \E k \in 1..Len(cf.imports) : IsSubstr(DartWords.flutter, cf.imports[k])

\* C26: after the Dart extractor has processed a file that imports Flutter and
\* declares a widget class X and a class _XState extends State<X>, in either
\* order, the entity of X carries has_state.
C26_StateMarksItsWidget ==
    (hist.op = "parse" /\ cf.language = "flutter_dart" /\ ImportsFlutter) =>
        \A i, j \in 1..Len(cf.content.lines) :
            (IsWidgetLine(cf.content.lines[i])
                 /\ IsStateLineOf(cf.content.lines[j], cf.content.lines[i]))
            => \E k \in 1..Len(cf.ents) :
                   /\ cf.ents[k].name = cf.content.lines[i].name
                   /\ cf.ents[k].start_line = i
                   /\ "has_state" \in cf.ents[k].props

\* the 0-based indices at which the iterations of the CSS extractor's loop
\* began, in their order
CssStarts == CssLoop([ents |-> <<>>, entities |-> <<>>, starts |-> <<>>],
                     cf.content.lines, 0).starts

\* C27: in the CSS extractor every iteration of the loop begins at a later line
\* than the one before, so the loop ends after at most one iteration per line;
\* the selector entities, in their order, have spans start_line..end_line that
\* follow one another without a common line; and no iteration begins at a line
\* inside the span of a selector extracted before it.
C27_CssScanAdvances ==
    (hist.op = "parse" /\ cf.language = "css") =>
        /\ \A a, b \in 1..Len(CssStarts) : a < b => CssStarts[a] < CssStarts[b]
        /\ Len(CssStarts) <= Len(cf.content.lines)
        /\ \A k \in 1..Len(cf.entities) :
               /\ cf.ents[cf.entities[k]].start_line <= cf.ents[cf.entities[k]].end_line
               /\ k > 1 => cf.ents[cf.entities[k - 1]].end_line
                               < cf.ents[cf.entities[k]].start_line
        /\ \A k \in 1..Len(cf.entities) : \A a \in 1..Len(CssStarts) :
               CssStarts[a] + 1 \notin (cf.ents[cf.entities[k]].start_line + 1)
                                          ..cf.ents[cf.entities[k]].end_line

\* a CSS file was extracted to two selectors, the first of which spans two lines
C27_Witness ==
    /\ hist.op = "parse" /\ cf.language = "css"
    /\ Len(cf.entities) = 2
    /\ cf.ents[cf.entities[1]].end_line > cf.ents[cf.entities[1]].start_line

\* C29: parsing again a file whose content has not changed, by a second
\* parse_entities or by save_content with the same text, gives the entities
\* the first parse gave, whatever language tag the first parse left.
C29_ReparseGivesSameEntities ==
    hist.op = "parse" =>
        LET again == ParseLoaded(cf).f
            saved == save_content(cf, cf.content.lines, DiskFile(cf.content.lines, TRUE)).f
        IN  /\ again.ents = cf.ents /\ again.entities = cf.entities
            /\ saved.ents = cf.ents /\ saved.entities = cf.entities

\* C30: every entity an extractor produces with its end_line set has
\* start_line <= end_line <= the number of lines of the file.
C30_EndLineWithinFile ==
    hist.op = "parse" =>
        \A k \in 1..Len(cf.ents) :
            cf.ents[k].end_line # NoLine =>
                /\ cf.ents[k].start_line <= cf.ents[k].end_line
                /\ cf.ents[k].end_line <= Len(cf.content.lines)
                /\ cf.line_count = Len(cf.content.lines)

----------------------------------------------------------------------------
(* Claims about one CodeFile and the tree *)

\* what a first parse of cf's content gives: a new CodeFile with that content
Fresh(f) ==
    ParseLoaded([CodeFile(f.file_path) EXCEPT !.content = f.content]).f

\* C3: after a parse of a CodeFile that was parsed before (explicit re-analysis
\* or save_content), its entities, imports and dependencies are what the
\* extractor derives from the current content, and nothing else.
C3_ReparseReplaces ==
    (hist.op \in {"parse", "save_content"} /\ hist.twice /\ ret.ok) =>
        /\ cf.ents = Fresh(cf).ents
        /\ cf.entities = Fresh(cf).entities
        /\ cf.imports = Fresh(cf).imports
        /\ cf.dependencies = Fresh(cf).dependencies

\* C6: whenever a load or a save has completed and the CodeFile holds a content,
\* its hash is the hash of that content, whatever another program did to the
\* file meanwhile.
C6_HashIsOfContent ==
    (hist.op \in {"load_content", "save_content"} /\ pc = Idle /\ ret.ok
        /\ cf.content.loaded) =>
        cf.hash = md5(cf.content.lines)

----------------------------------------------------------------------------
(* Claims about CodeEntity objects *)

\* C4: after any sequence of add_child, remove_child and from_dict on entities,
\* extracted ones included, every entity whose parent is set is in the
\* children list of that parent.
C4_ParentListsChild ==
    \A c \in 1..Len(arena) :
        arena[c].parent # NoParent => c \in Range(arena[arena[c].parent].children)

\* an entity was given to a second parent: two entities list it, and its
\* parent is one of them
C4_Witness ==
    /\ hist.op = "add_child"
    /\ \E c \in 1..Len(arena) :
           /\ arena[c].parent # NoParent
           /\ \E p \in 1..Len(arena) :
                  p # arena[c].parent /\ c \in Range(arena[p].children)

----------------------------------------------------------------------------
(* Claims about dependency analysis *)

\* the files of the project were just analysed
Analysed == hist.op = "analyze_dependencies"

\* the file at `path` was scanned with the one import `token`
Imports(path, token) ==
    \E k \in 1..Len(files) :
        /\ files[k].relative_path = path
        /\ files[k].content = Content(<<Import("import", token)>>)

\* C11: the dependency graph holds no edge A -> A, and analyze_dependencies
\* reports no cycle of length one.
C11_NoSelfEdge ==
    /\ \A e \in dependency_graph.edges : e[1] # e[2]
    /\ Analysed => \A i \in 1..Len(analysis.circular_dependencies) :
                       Len(analysis.circular_dependencies[i]) # 1

C13_RelativeImportsResolve ==
    LET a_js == <<"a", ".", "j", "s">>
        b_js == <<"b", ".", "j", "s">>
    IN  (/\ hist.op \in {"scan_body", "analyze_dependencies"}
         /\ Imports(a_js, <<".", "/", "b">>)
         /\ Imports(b_js, <<".", "/", "a">>))
        => /\ {<<a_js, b_js>>, <<b_js, a_js>>} \subseteq dependency_graph.edges
           /\ Analysed => \E i \in 1..Len(analysis.circular_dependencies) :
                              analysis.circular_dependencies[i] \in Rotations(<<a_js, b_js>>)

\* C14: every token of every file is counted as external exactly when the
\* file has no edge for it in the graph, and the count of an external token is
\* the number of files that list it.
C14_ExternalIffUnresolved ==
    Analysed =>
        /\ \A k \in 1..Len(files) : \A dep \in files[k].dependencies :
               (dep \in DOMAIN analysis.external_dependencies)
                   <=> ~\E e \in dependency_graph.edges :
                           e[1] = files[k].relative_path /\ Matches(dep, e[2])
        /\ \A dep \in DOMAIN analysis.external_dependencies :
               analysis.external_dependencies[dep] =
                   Cardinality({k \in 1..Len(files) : dep \in files[k].dependencies})

----------------------------------------------------------------------------
(* Claims about similar files *)

\* C17: the similarity of two contents is the same in both directions, for
\* every two files of the project, and every pair find_similar_files returns
\* carries the score of its files taken the other way round.
C17_SimilarityIsSymmetric ==
    /\ \A k1, k2 \in 1..Len(files) :
           calculate_similarity(files[k1].content, files[k2].content)
               = calculate_similarity(files[k2].content, files[k1].content)
    /\ hist.op = "find_similar_files" =>
           \A i \in 1..Len(analysis.similar_files) :
               analysis.similar_files[i].similarity
                   = calculate_similarity(Get(files, analysis.similar_files[i].path2).content,
                                          Get(files, analysis.similar_files[i].path1).content)

\* a pair was returned whose files share a line and differ in another
C17_Witness ==
    /\ hist.op = "find_similar_files"
    /\ \E i \in 1..Len(analysis.similar_files) :
           /\ analysis.similar_files[i].similarity.num > 0
           /\ analysis.similar_files[i].similarity.num < analysis.similar_files[i].similarity.den

\* the files at k1 < k2 are of one language and have the same set of lines
\* left after comments and blanks are taken out
SameLines(k1, k2) ==
    /\ k1 < k2
    /\ files[k1].language = files[k2].language
    /\ files[k1].content.loaded /\ files[k2].content.loaded
    /\ LineSet(files[k1].content) = LineSet(files[k2].content)

\* the pair of the files at k1 and k2 was returned with the score 1.0
ReturnedWithOne(k1, k2) ==
    \E i \in 1..Len(analysis.similar_files) :
        /\ analysis.similar_files[i].path1 = files[k1].relative_path
        /\ analysis.similar_files[i].path2 = files[k2].relative_path
        /\ analysis.similar_files[i].similarity.num = analysis.similar_files[i].similarity.den

\* C18, as claimed: find_similar_files returns, with the score 1.0, every pair
\* of files of one language whose line sets are the same, for every threshold
\* up to 1.0.
C18_SameLinesScoreOne ==
    hist.op = "find_similar_files" =>
        \A k1, k2 \in 1..Len(files) : SameLines(k1, k2) => ReturnedWithOne(k1, k2)

\* C18, corrected: ... every pair of files of one language whose line sets
\* are the same and not empty.
C18_SameLinesNotEmptyScoreOne ==
    hist.op = "find_similar_files" =>
        \A k1, k2 \in 1..Len(files) :
            (SameLines(k1, k2) /\ LineSet(files[k1].content) # {}) => ReturnedWithOne(k1, k2)

\* two files of different texts and the same, non-empty line set were
\* returned at the threshold 1.0
C18_Witness ==
    /\ hist.op = "find_similar_files"
    /\ analysis.threshold = [num |-> 1, den |-> 1]
    /\ \E k1, k2 \in 1..Len(files) :
           /\ SameLines(k1, k2) /\ LineSet(files[k1].content) # {}
           /\ files[k1].content # files[k2].content
           /\ ReturnedWithOne(k1, k2)

----------------------------------------------------------------------------
(* Claims about the complexity of a CodeFile *)

\* C19: analyze_complexity reports, for the content of the file, one plus the
\* number of matches of the branch patterns over all its lines, and exactly
\* one for a content in which no pattern matches.
C19_CyclomaticIsOnePlusMatches ==
    (hist.op = "analyze_complexity" /\ cf.content.loaded) =>
        /\ analysis.cyclomatic_complexity = cyclomatic_complexity(cf.content.lines)
        /\ (\A k \in 1..Len(cf.content.lines) :
                cf.content.lines[k] \in {Text(<<"x">>), Text(<<"e", "l", "i", "f">>)})
               => analysis.cyclomatic_complexity = 1

----------------------------------------------------------------------------
(* Claims about a tree with excluded directories *)

\* the directories the claim names are among the default excluded ones
ClaimedExcluded ==
    { <<".", "g", "i", "t">>, <<"n", "o", "d", "e", "_", "m", "o", "d", "u", "l", "e", "s">>,
      <<"v", "e", "n", "v">>, <<"_", "_", "p", "y", "c", "a", "c", "h", "e", "_", "_">>,
      <<"b", "u", "i", "l", "d">>, <<"d", "i", "s", "t">>, <<".", "i", "d", "e", "a">>,
      <<".", "v", "s", "c", "o", "d", "e">> }

----------------------------------------------------------------------------
(* Claims about the analysis pass *)

\* the files a pass analyses when it is asked to stop with its worker at the
\* point `asked`: the readable files before that point, and the file in
\* progress there
AnalysedWhenStoppedAt(asked) ==
    {k \in 0..(Len(thread.files_to_analyze) - 1) :
        /\ thread.files_to_analyze[k + 1] # "unreadable"
        /\ k < asked.i \/ (k = asked.i /\ asked.at = "file")}

\* once a stop was requested: a file is in progress only if it was in progress
\* when the request arrived, and the finished pass has emitted the results of
\* exactly the files analysed up to that one and has unregistered its worker
StopsAfterTheCurrentFile ==
    hist.op = "abort" =>
        /\ thread.at = "file" => (hist.pre[1].at = "file" /\ thread.i = hist.pre[1].i)
        /\ thread.at = "done" =>
               /\ ~thread.registered
               /\ Len(thread.completed) = 1
               /\ thread.completed[1].analyzed_files
                      = Cardinality(AnalysedWhenStoppedAt(hist.pre[1]))
               /\ {thread.completed[1].issues[k].file :
                       k \in 1..Len(thread.completed[1].issues)}
                      = AnalysedWhenStoppedAt(hist.pre[1])

\* C28: after a stop request arrives during a pass, the file in progress is
\* completed, no further file is started, and the pass ends: it emits its
\* completion with the results gathered so far and unregisters its worker.
C28_CancellationIsCooperative ==
    /\ []StopsAfterTheCurrentFile
    /\ (hist.op = "abort") ~> (thread.at = "done")

\* a pass that was asked to stop in the middle of its second file has ended
\* with two files analysed and a third never started
C28_Witness ==
    /\ hist.op = "abort" /\ hist.pre[1] = [i |-> 1, at |-> "file"]
    /\ thread.at = "done"
    /\ Len(thread.files_to_analyze) = 3
    /\ thread.completed[1].analyzed_files = 2

====
